---------------------------- MODULE Spec2Model ----------------------------
(***************************************************************************)
(* A model of the query-signal extraction and hybrid-retrieval-query       *)
(* construction pipeline of the An-Najah institutional repository search   *)
(* system (src/src/query_utils, src/src/services, src/src/extracters).     *)
(*                                                                         *)
(* Text is modelled as a sequence of one-character strings, so that the    *)
(* regular expressions and the str methods of the code are computed, not   *)
(* assumed.  A Python dict is a TLA+ function whose DOMAIN holds exactly   *)
(* the keys that are present; a key that is absent (or None) is a key that *)
(* is not in the DOMAIN.                                                   *)
(***************************************************************************)
EXTENDS Integers, Sequences, FiniteSets, TLC

VARIABLES
    pc,          \* position of the operation under study
    temporals,   \* the temporal strings handed to the signal filter / expander
    safe,        \* result of filter_safe_temporals
    expanded,    \* result of expand_year_ranges
    args,        \* the arguments of the call under study
    body,        \* the request body the builder under study returned
    q,           \* the raw text of the user query
    lang,        \* the language prepare_input settled on
    locations,   \* the location candidates the extractor returned
    geo_refs,    \* the geo references extractors has accumulated
    semantic_clean_query,   \* the text prepare_input embeds
    lexical25_clean_query,  \* the text prepare_input hands to BM25
    extracted,   \* what the temporal and the location extractor answer for q
    geocoder,    \* what the geocoding service answers for each place
    visited,     \* the candidates the loop of extractors has taken, in order
    geocoded,    \* the place names passed to _geocode_single_place, in order
    token_ids,   \* chunk_text: the tokens of the text being chunked
    chunk_start, \* chunk_text: the offset `start` of the next window
    chunks,      \* chunk_text: the windows produced so far
    docs,        \* the documents indexing_pipeline returned
    line_no,     \* generate_documents_from_json_stream: the lines read so far
    yielded,     \* generate_documents_from_json_stream: the actions yielded
    scanned,     \* suggest: the hits the loop has taken
    suggestions  \* suggest: the list it returned

temporalVars == <<temporals, safe, expanded>>

hybridVars == <<args, body>>

queryVars ==
    <<q, lang, locations, geo_refs, semantic_clean_query, lexical25_clean_query,
      extracted, geocoder, visited, geocoded>>

ingestVars == <<token_ids, chunk_start, chunks, docs>>

streamVars == <<line_no, yielded>>

suggestVars == <<scanned, suggestions>>

vars ==
    <<pc, temporals, safe, expanded, args, body, queryVars, ingestVars,
      streamVars, suggestVars>>

\* the state of the bulk ingestion while no file is being read
StreamIdle ==
    /\ line_no = 0
    /\ yielded = <<>>

\* the state of the autocomplete while no prefix is being completed
SuggestIdle ==
    /\ scanned = 0
    /\ suggestions = <<>>

\* the state of the ingestion side while no record is being handled
IngestIdle ==
    /\ token_ids = <<>>
    /\ chunk_start = 0
    /\ chunks = <<>>
    /\ docs = <<>>

\* the state of the query path while no query is being handled
QueryIdle ==
    /\ q = <<>>
    /\ lang = "en"
    /\ locations = {}
    /\ geo_refs = <<>>
    /\ semantic_clean_query = <<>>
    /\ lexical25_clean_query = <<>>
    /\ extracted = [temporals |-> {}, locations |-> {}]
    /\ geocoder = <<>>
    /\ visited = <<>>
    /\ geocoded = <<>>

---------------------------------------------------------------------------
(* Characters and the str methods the code uses.                           *)

Digits == <<"0", "1", "2", "3", "4", "5", "6", "7", "8", "9">>

IsDigit(c) == \E d \in 1..10 : Digits[d] = c

DigitVal(c) == (CHOOSE d \in 1..10 : Digits[d] = c) - 1

IsSpace(c) == c = " "

UpperCase ==
    <<"A", "B", "C", "D", "E", "F", "G", "H", "I", "J", "K", "L", "M", "N",
      "O", "P", "Q", "R", "S", "T", "U", "V", "W", "X", "Y", "Z">>

LowerCase ==
    <<"a", "b", "c", "d", "e", "f", "g", "h", "i", "j", "k", "l", "m", "n",
      "o", "p", "q", "r", "s", "t", "u", "v", "w", "x", "y", "z">>

\* the characters of the modelled texts, in code point order
Alphabet ==
    <<" ", "!", "%", ",", "-", ".">> \o Digits \o <<":", ";", "?">>
    \o UpperCase \o <<"_">> \o LowerCase

ord(c) == CHOOSE i \in 1..Len(Alphabet) : Alphabet[i] = c

IsUpper(c) == \E i \in 1..26 : UpperCase[i] = c

IsLower(c) == \E i \in 1..26 : LowerCase[i] = c

LowerChar(c) ==
    IF IsUpper(c) THEN LowerCase[CHOOSE i \in 1..26 : UpperCase[i] = c] ELSE c

\* str.lower()
lower(s) == [i \in 1..Len(s) |-> LowerChar(s[i])]

\* a < b for two strings
StrLess(a, b) ==
    \E k \in 1..(Len(a) + 1) :
        /\ k <= Len(b)
        /\ \A j \in 1..(k - 1) : a[j] = b[j]
        /\ k = Len(a) + 1 \/ ord(a[k]) < ord(b[k])

\* sorted(S) for a set of strings
sorted(S) ==
    [k \in 1..Cardinality(S) |->
        CHOOSE x \in S : Cardinality({y \in S : StrLess(y, x)}) = k - 1]

\* x in s, for a character x
HasChar(s, x) == \E i \in 1..Len(s) : s[i] = x

\* x in seq, for a list
InSeq(x, seq) == \E i \in 1..Len(seq) : seq[i] = x

\* str.strip()
strip(s) ==
    IF \A i \in 1..Len(s) : IsSpace(s[i]) THEN <<>>
    ELSE LET first == CHOOSE i \in 1..Len(s) :
                        ~IsSpace(s[i]) /\ \A j \in 1..(i - 1) : IsSpace(s[j])
             last  == CHOOSE i \in 1..Len(s) :
                        ~IsSpace(s[i]) /\ \A j \in (i + 1)..Len(s) : IsSpace(s[j])
         IN  SubSeq(s, first, last)

\* str.split(sep) for a one-character separator
RECURSIVE split(_, _)
split(s, sep) ==
    IF ~HasChar(s, sep) THEN <<s>>
    ELSE LET k == CHOOSE i \in 1..Len(s) :
                    s[i] = sep /\ \A j \in 1..(i - 1) : s[j] # sep
         IN  <<SubSeq(s, 1, k - 1)>> \o split(SubSeq(s, k + 1, Len(s)), sep)

\* int(s) for a string of decimal digits
RECURSIVE int(_)
int(s) ==
    IF s = <<>> THEN 0
    ELSE 10 * int(SubSeq(s, 1, Len(s) - 1)) + DigitVal(s[Len(s)])

\* str(n) for n >= 0
RECURSIVE str(_)
str(n) ==
    IF n < 10 THEN <<Digits[n + 1]>>
    ELSE str(n \div 10) \o <<Digits[(n % 10) + 1]>>

---------------------------------------------------------------------------
(* src/src/query_utils/query_preprocessor.py: the signal filter and the    *)
(* range expander.                                                         *)

\* (19|20)\d{2} matching at position i of t
YearAt(t, i) ==
    /\ i >= 1
    /\ i + 3 <= Len(t)
    /\ \/ t[i] = "1" /\ t[i + 1] = "9"
       \/ t[i] = "2" /\ t[i + 1] = "0"
    /\ IsDigit(t[i + 2])
    /\ IsDigit(t[i + 3])

\* YEAR_RE.search(t)
YEAR_RE_search(t) == \E i \in 1..Len(t) : YearAt(t, i)

NoPercentCheck(t) == FALSE

\* "%" in t: the "obvious junk" test of filter_safe_temporals
IsJunk(t) == HasChar(t, "%")

\* the body of the loop of filter_safe_temporals, as a test on the stripped t
KeepTemporal(t) ==
    /\ t # <<>>
    /\ ~IsJunk(t)
    /\ YEAR_RE_search(t)

filter_safe_temporals(ts) ==
    IF ts = <<>> THEN <<>>
    ELSE SelectSeq([i \in 1..Len(ts) |-> strip(ts[i])], KeepTemporal)

\* re.fullmatch(r"(19|20)\d{2}\s*-\s*(19|20)\d{2}", t)
RangeFullMatch(t) ==
    /\ Len(t) >= 9
    /\ YearAt(t, 1)
    /\ YearAt(t, Len(t) - 3)
    /\ \E k \in 5..(Len(t) - 4) :
          /\ t[k] = "-"
          /\ \A j \in 5..(Len(t) - 4) : j # k => IsSpace(t[j])

\* the safety bound of the expansion
MaxRangeSpan == 50

SpanAllowedOffByOne(start, end) == start <= end /\ (end - start) < MaxRangeSpan

SpanAllowed(start, end) == start <= end /\ (end - start) <= MaxRangeSpan

\* what one input string adds to `out` in the loop of expand_year_ranges
expand_one(raw) ==
    LET t == strip(raw)
    IN  IF RangeFullMatch(t)
        THEN LET start == int(strip(split(t, "-")[1]))
                 end   == int(strip(split(t, "-")[2]))
             IN  IF SpanAllowed(start, end)
                 THEN [y \in 1..(end - start + 1) |-> str(start + y - 1)]
                 ELSE <<t>>
        ELSE <<t>>

RECURSIVE expand_all(_)
expand_all(ts) ==
    IF ts = <<>> THEN <<>>
    ELSE expand_one(Head(ts)) \o expand_all(Tail(ts))

\* enumerate(s), and the values of a list of enumerated entries
Enumerated(s) == [i \in 1..Len(s) |-> [i |-> i, x |-> s[i]]]

Values(entries) == [k \in 1..Len(entries) |-> entries[k].x]

dedupe_keep_last(out) ==
    Values(SelectSeq(Enumerated(out),
                     LAMBDA e : \A j \in (e.i + 1)..Len(out) : out[j] # e.x))

\* "unique, keep order": the seen/deduped loop that ends expand_year_ranges
\* appends out[i] exactly when out[i] is not among out[1..i-1]
dedupe(out) ==
    Values(SelectSeq(Enumerated(out),
                     LAMBDA e : \A j \in 1..(e.i - 1) : out[j] # e.x))

expand_year_ranges(ts) == dedupe(expand_all(ts))

---------------------------------------------------------------------------
(* src/src/query_utils/query_preprocessor.py: the text normaliser.  A      *)
(* regular expression is modelled by the length of its match at every      *)
(* position of the text (-1: no match there); re.sub then replaces the     *)
(* leftmost non-overlapping matches.                                       *)

\* \w
IsWord(c) == IsDigit(c) \/ IsUpper(c) \/ IsLower(c) \/ c = "_"

WordAt(text, i) == i >= 1 /\ i <= Len(text) /\ IsWord(text[i])

\* \b between text[p - 1] and text[p]
Boundary(text, p) == WordAt(text, p - 1) # WordAt(text, p)

\* the first position from j on that holds no whitespace: where \s* ends
SkipSpaces(text, j) ==
    CHOOSE k \in j..(Len(text) + 1) :
        /\ k = Len(text) + 1 \/ ~IsSpace(text[k])
        /\ \A m \in j..(k - 1) : IsSpace(text[m])

\* text[i..] starts with word, ignoring case
StartsWith(text, i, word) ==
    /\ i + Len(word) - 1 <= Len(text)
    /\ lower(SubSeq(text, i, i + Len(word) - 1)) = lower(word)

\* pattern.sub(" ", text), mlen[i] being the length of the match at i
RegexSub(text, mlen) ==
    LET n == Len(text)
        sel[i \in 1..(n + 1)] ==
            /\ mlen[i] >= 0
            /\ \A j \in 1..(i - 1) : (mlen[j] > 0 /\ j + mlen[j] > i) => ~sel[j]
        covered(i) == \E j \in 1..i : mlen[j] > 0 /\ i < j + mlen[j] /\ sel[j]
        slots == [k \in 1..(2 * (n + 1)) |->
                    IF k % 2 = 1
                    THEN IF sel[(k + 1) \div 2] THEN " " ELSE ""
                    ELSE IF k \div 2 <= n /\ ~covered(k \div 2)
                         THEN text[k \div 2] ELSE ""]
    IN  SelectSeq(slots, LAMBDA c : c # "")

PhraseMatchCaseSensitive(text, phrase) ==
    [i \in 1..(Len(text) + 1) |->
        IF /\ i + Len(phrase) - 1 <= Len(text)
           /\ SubSeq(text, i, i + Len(phrase) - 1) = phrase
           /\ Boundary(text, i)
           /\ Boundary(text, i + Len(phrase))
        THEN Len(phrase) ELSE -1]

\* re.compile(rf"\b{re.escape(phrase)}\b", re.IGNORECASE)
PhraseMatch(text, phrase) ==
    [i \in 1..(Len(text) + 1) |->
        IF /\ StartsWith(text, i, phrase)
           /\ Boundary(text, i)
           /\ Boundary(text, i + Len(phrase))
        THEN Len(phrase) ELSE -1]

\* re.sub(r"\s+", " ", text)
CollapseSpaces(text) ==
    Values(SelectSeq(Enumerated(text),
                     LAMBDA e : ~(IsSpace(e.x) /\ e.i > 1 /\ IsSpace(text[e.i - 1]))))

IsPunct(c) == c \in {",", ".", ";", ":", "!", "?"}

\* re.sub(r"\s+([,.;:!?])", r"\1", text)
RemoveSpaceBeforePunct(text) ==
    Values(SelectSeq(Enumerated(text),
                     LAMBDA e : ~(/\ IsSpace(e.x)
                                  /\ SkipSpaces(text, e.i) <= Len(text)
                                  /\ IsPunct(text[SkipSpaces(text, e.i)]))))

\* the loop over the sorted phrases of clean_query_text
RECURSIVE RemovePhrases(_, _)
RemovePhrases(text, order) ==
    IF order = <<>> THEN text
    ELSE RemovePhrases(RegexSub(text, PhraseMatch(text, Head(order))), Tail(order))

\* the set `phrases` of clean_query_text
Phrases(temporal_expressions, locs) ==
    {strip(p) : p \in {x \in temporal_expressions \cup locs : x # <<>>}}

\* sorted(phrases, key=len, reverse=True): the sort is stable, a set is
\* iterated in no particular order, so phrases of equal length come in any
\* order
RECURSIVE PhraseOrders(_)
PhraseOrders(phrases) ==
    IF phrases = {} THEN {<<>>}
    ELSE UNION {{<<first>> \o rest : rest \in PhraseOrders(phrases \ {first})} :
                  first \in {x \in phrases :
                                \A y \in phrases : Len(x) >= Len(y)}}

\* clean_query_text for one order of the phrases
CleanWithOrder(query, order) ==
    RemoveSpaceBeforePunct(strip(CollapseSpaces(RemovePhrases(query, order))))

\* r"\b(19|20)\d{2}\s*[-<en dash>]\s*(19|20)\d{2}\b"; the texts here are ASCII
\* (Alphabet), so of the two dashes of the class only "-" can occur
YearDashRangeMatch(text) ==
    [i \in 1..(Len(text) + 1) |->
        IF Boundary(text, i) /\ YearAt(text, i)
        THEN LET j == SkipSpaces(text, i + 4)
                 k == SkipSpaces(text, j + 1)
             IN  IF /\ j <= Len(text)
                    /\ text[j] = "-"
                    /\ YearAt(text, k)
                    /\ Boundary(text, k + 4)
                 THEN k + 4 - i ELSE -1
        ELSE -1]

RangeWords == {<<"t", "o">>, <<"u", "n", "t", "i", "l">>, <<"t", "i", "l", "l">>}

\* r"\b(19|20)\d{2}\s*(to|until|till)\s*(19|20)\d{2}\b", re.IGNORECASE
YearWordRangeMatch(text) ==
    [i \in 1..(Len(text) + 1) |->
        IF Boundary(text, i) /\ YearAt(text, i)
        THEN LET j == SkipSpaces(text, i + 4)
                 ends == {SkipSpaces(text, j + Len(w)) + 4 :
                            w \in {v \in RangeWords :
                                     /\ StartsWith(text, j, v)
                                     /\ YearAt(text, SkipSpaces(text, j + Len(v)))
                                     /\ Boundary(text, SkipSpaces(text, j + Len(v)) + 4)}}
             IN  IF ends # {} THEN (CHOOSE e \in ends : TRUE) - i ELSE -1
        ELSE -1]

\* r"\b(19|20)\d{2}\b"
YearTokenMatch(text) ==
    [i \in 1..(Len(text) + 1) |->
        IF Boundary(text, i) /\ YearAt(text, i) /\ Boundary(text, i + 4)
        THEN 4 ELSE -1]

strip_year_ranges_only(text) ==
    IF text = <<>> THEN <<>>
    ELSE LET t1 == RegexSub(text, YearDashRangeMatch(text))
             t2 == RegexSub(t1, YearWordRangeMatch(t1))
         IN  strip(CollapseSpaces(t2))

strip_year_like_tokens(text) ==
    IF text = <<>> THEN <<>>
    ELSE LET t1 == RegexSub(text, YearDashRangeMatch(text))
             t2 == RegexSub(t1, YearWordRangeMatch(t1))
             t3 == RegexSub(t2, YearTokenMatch(t2))
         IN  strip(CollapseSpaces(t3))

\* the noisy temporals of build_lexical_text, as a set
NoisyTemporals(temporal_set) ==
    LET safe_temporals ==
            expand_year_ranges(filter_safe_temporals(sorted(temporal_set)))
    IN  {t \in {strip(x) : x \in temporal_set} :
            t # <<>> /\ ~InSeq(t, safe_temporals)}

\* build_lexical_text for one order of the noisy temporals
LexicalWithOrder(query, order) == strip_year_like_tokens(CleanWithOrder(query, order))

---------------------------------------------------------------------------
(* The inputs of the temporal functions.                                   *)

MaxTemporals == 3

MaxMixed == 2

T_2020      == <<"2", "0", "2", "0">>
T_2019_2021 == <<"2", "0", "1", "9", "-", "2", "0", "2", "1">>
T_Spaced    == <<"2", "0", "1", "9", " ", "-", " ", "2", "0", "2", "1">>
T_Inverted  == <<"2", "0", "2", "1", "-", "2", "0", "1", "9">>
T_Span50    == <<"1", "9", "5", "0", "-", "2", "0", "0", "0">>
T_Span51    == <<"1", "9", "5", "0", "-", "2", "0", "0", "1">>
T_Same      == <<"2", "0", "2", "0", "-", "2", "0", "2", "0">>
T_Padded    == <<" ", "2", "0", "2", "0", " ">>
T_PaddedRng == <<" ", "2", "0", "1", "9", "-", "2", "0", "2", "1", " ">>
T_Percent   == <<"1", "9", "9", "0", "s", " ", "2", "0", "%">>
T_Winter    == <<"w", "i", "n", "t", "e", "r">>
T_Empty     == <<>>
T_To        == <<"2", "0", "1", "3", " ", "t", "o", " ", "2", "0", "1", "9">>
T_Prefixed  == <<"x", "2", "0", "1", "9", "-", "2", "0", "2", "1">>
T_Decade    == <<"1", "9", "9", "0", "s">>

CoreTemporals == {T_2020, T_2019_2021, T_Padded, T_Percent, T_Winter, T_Inverted}

AllTemporals ==
    CoreTemporals \cup
    {T_Spaced, T_Span50, T_Span51, T_Same, T_PaddedRng, T_Empty, T_To,
     T_Prefixed, T_Decade}

\* every list over S of length at most n
ListsUpTo(S, n) == UNION {[1..k -> S] : k \in 0..n}

TemporalInputs ==
    ListsUpTo(CoreTemporals, MaxTemporals) \cup ListsUpTo(AllTemporals, MaxMixed)

---------------------------------------------------------------------------
(* SpecTemporal: the signal filter and the range expander applied to every *)
(* input list.                                                             *)

InitTemporal ==
    /\ pc = "start"
    /\ StreamIdle
    /\ SuggestIdle
    /\ temporals \in TemporalInputs
    /\ safe = <<>>
    /\ expanded = <<>>
    /\ args = <<>>
    /\ body = <<>>
    /\ QueryIdle
    /\ IngestIdle

\* filter_safe_temporals(temporals)
ApplyFilter ==
    /\ pc = "start"
    /\ safe' = filter_safe_temporals(temporals)
    /\ pc' = "filtered"
    /\ UNCHANGED <<streamVars, suggestVars,
                   temporals, expanded, hybridVars, queryVars, ingestVars>>

\* expand_year_ranges(temporals)
ApplyExpand ==
    /\ pc = "start"
    /\ expanded' = expand_year_ranges(temporals)
    /\ pc' = "expanded"
    /\ UNCHANGED <<streamVars, suggestVars,
                   temporals, safe, hybridVars, queryVars, ingestVars>>

\* expand_year_ranges(filter_safe_temporals(temporals)), as the query
\* builder and build_lexical_text call them
ApplyFilterThenExpand ==
    /\ pc = "start"
    /\ safe' = filter_safe_temporals(temporals)
    /\ expanded' = expand_year_ranges(filter_safe_temporals(temporals))
    /\ pc' = "safe_years"
    /\ UNCHANGED <<streamVars, suggestVars,
                   temporals, hybridVars, queryVars, ingestVars>>

NextTemporal == ApplyFilter \/ ApplyExpand \/ ApplyFilterThenExpand

SpecTemporal == InitTemporal /\ [][NextTemporal]_vars


---------------------------------------------------------------------------
(* Properties of the signal filter and the range expander.  They are       *)
(* stated with their own reading of the text: years are written with a     *)
(* digit table, trimming and matching by concatenation.                    *)

Years == 1900..2099

Year4(y) ==
    <<Digits[(y \div 1000) + 1], Digits[((y \div 100) % 10) + 1],
      Digits[((y \div 10) % 10) + 1], Digits[(y % 10) + 1]>>

Blank(n) == [i \in 1..n |-> " "]

\* t without its leading and trailing blanks
Trimmed(t) ==
    LET inked == {i \in 1..Len(t) : t[i] # " "}
    IN  IF inked = {} THEN <<>>
        ELSE SubSeq(t, CHOOSE i \in inked : \A j \in inked : i <= j,
                       CHOOSE i \in inked : \A j \in inked : j <= i)

\* s is YEAR-YEAR, optionally spaced around the hyphen, for the years a and b
IsRangeOf(s, a, b) ==
    /\ Len(s) >= 9
    /\ SubSeq(s, 1, 4) = Year4(a)
    /\ SubSeq(s, Len(s) - 3, Len(s)) = Year4(b)
    /\ \E m \in 0..(Len(s) - 9) :
          s = Year4(a) \o Blank(m) \o <<"-">> \o Blank(Len(s) - 9 - m) \o Year4(b)

\* the expansion of the single string t, `opaque` being what a string that
\* is not expanded yields
SingleExpansion(t, opaque) ==
    LET s == Trimmed(t)
    IN  IF \E a \in Years : \E b \in Years :
               IsRangeOf(s, a, b) /\ a <= b /\ b - a <= 50
        THEN LET a == CHOOSE a \in Years : SubSeq(s, 1, 4) = Year4(a)
                 b == CHOOSE b \in Years : SubSeq(s, Len(s) - 3, Len(s)) = Year4(b)
             IN  [i \in 1..(b - a + 1) |-> Year4(a + i - 1)]
        ELSE <<opaque>>

\* C6 as stated: for a single input string t, expand_year_ranges yields
\* every year of [start, end] in ascending order when t (trimmed) is an exact
\* YEAR-YEAR with start <= end and end - start <= 50, and otherwise exactly
\* [t], the input string unchanged.
C6_OpaqueIsInputVerbatim ==
    (pc = "expanded" /\ Len(temporals) = 1)
        => expanded = SingleExpansion(temporals[1], temporals[1])

\* C6 as amended: for a single input string t, expand_year_ranges yields
\* every year of [start, end] in ascending order, each as its own 4-digit
\* string, when t (trimmed) is an exact YEAR-YEAR with start <= end and
\* end - start <= 50, and otherwise exactly [t trimmed]: the string without
\* its leading and trailing whitespace, otherwise unchanged.
C6_SingleExpansion ==
    (pc = "expanded" /\ Len(temporals) = 1)
        => expanded = SingleExpansion(temporals[1], Trimmed(temporals[1]))

\* a 50-year span has been expanded into its 51 years
C6_Witness ==
    /\ pc = "expanded"
    /\ temporals = <<T_Span50>>
    /\ Len(expanded) = 51
    /\ expanded[1] = <<"1", "9", "5", "0">>
    /\ expanded[51] = <<"2", "0", "0", "0">>

\* the per-input expansions of the input list, concatenated
PerInputConcat ==
    LET one(i) == expand_year_ranges(<<temporals[i]>>)
        cat[i \in 0..Len(temporals)] ==
            IF i = 0 THEN <<>> ELSE cat[i - 1] \o one(i)
    IN  cat[Len(temporals)]

FirstIndex(seq, x) ==
    CHOOSE k \in 1..Len(seq) : seq[k] = x /\ \A j \in 1..(k - 1) : seq[j] # x

\* C7: for every input list, the output of expand_year_ranges has no
\* duplicate, holds exactly the strings of the concatenated per-input
\* expansions, and lists them in the order of their first occurrence there.
C7_DedupeKeepsFirstSeenOrder ==
    pc = "expanded" =>
        LET cat == PerInputConcat
            pos == [i \in 1..Len(expanded) |-> FirstIndex(cat, expanded[i])]
        IN  /\ \A i \in 1..Len(expanded) : \A j \in 1..Len(expanded) :
                   expanded[i] = expanded[j] => i = j
            /\ \A k \in 1..Len(cat) : InSeq(cat[k], expanded)
            /\ \A i \in 1..Len(expanded) : InSeq(expanded[i], cat)
            /\ \A i \in 1..(Len(expanded) - 1) : pos[i] < pos[i + 1]

\* a range followed by a year it contains: the later duplicate was dropped
C7_Witness ==
    /\ pc = "expanded"
    /\ temporals = <<T_2019_2021, T_2020, T_Winter>>
    /\ Len(PerInputConcat) = 5
    /\ Len(expanded) = 4

\* C8 as stated: expand_year_ranges(["2020", "2019-2021", "2020"]) returns
\* the years in the order "2019", "2020", "2021", "2020" appearing once.
C8_SortedOrder ==
    (pc = "expanded" /\ temporals = <<T_2020, T_2019_2021, T_2020>>)
        => expanded = <<Year4(2019), Year4(2020), Year4(2021)>>

\* C8 as amended: expand_year_ranges(["2020", "2019-2021", "2020"]) returns
\* "2020", "2019", "2021": "2020" appears exactly once, at the position of
\* its first occurrence, which is before the years of the range.
C8_FirstSeenOrder ==
    (pc = "expanded" /\ temporals = <<T_2020, T_2019_2021, T_2020>>)
        => expanded = <<Year4(2020), Year4(2019), Year4(2021)>>

C8_Witness ==
    /\ pc = "expanded"
    /\ temporals = <<T_2020, T_2019_2021, T_2020>>
    /\ Len(expanded) = 3

\* s holds a 4-digit year (19|20)dd and no percent sign
IsSafeTemporal(s) ==
    /\ \E i \in 1..(Len(s) - 3) :
          /\ SubSeq(s, i, i + 1) \in {<<"1", "9">>, <<"2", "0">>}
          /\ {s[i + 2], s[i + 3]} \subseteq {Digits[d] : d \in 1..10}
    /\ \A i \in 1..Len(s) : s[i] # "%"

\* the k-th smallest element of the set of numbers S
Kth(S, k) == CHOOSE i \in S : Cardinality({j \in S : j < i}) = k - 1

\* C9: filter_safe_temporals returns, in input order, exactly the trimmed
\* strings that hold a 4-digit year (19|20)dd and no percent sign; a string
\* with a percent sign, an empty string and a non-year phrase are dropped.
C9_FilterKeepsSafeYears ==
    pc \in {"filtered", "safe_years"} =>
        LET kept == {i \in 1..Len(temporals) : IsSafeTemporal(Trimmed(temporals[i]))}
        IN  /\ Len(safe) = Cardinality(kept)
            /\ \A k \in 1..Len(safe) : safe[k] = Trimmed(temporals[Kth(kept, k)])

\* "1990s 20%" was dropped although it holds a year, a padded year was kept
C9_Witness ==
    /\ pc = "filtered"
    /\ temporals = <<T_Percent, T_Padded, T_Winter>>
    /\ safe = <<T_2020>>

---------------------------------------------------------------------------
(* src/src/query_utils/full_text_query.py: the hybrid query builder the    *)
(* search service calls.  A boost weight is kept as the literal the code   *)
(* writes ("0.6", "2.0", "5.0"); a coordinate is a whole number of         *)
(* degrees.                                                                *)

\* a keyword argument, or its default when the caller leaves it out
Arg(a, name, default) == IF name \in DOMAIN a THEN a[name] ELSE default

_wrap_boosts_as_filter(leaf, filters, should_boosts) ==
    IF filters = <<>> /\ should_boosts = <<>> THEN leaf
    ELSE [bool |-> [must |-> <<leaf>>, filter |-> filters \o should_boosts]]

_wrap_always(leaf, filters, should_boosts) ==
    [bool |-> [must |-> <<leaf>>, should |-> should_boosts, minimum_should_match |-> 0]]

_wrap_with_filters(leaf, filters, should_boosts) ==
    IF filters = <<>> /\ should_boosts = <<>> THEN leaf
    ELSE [bool |->
            [must |-> <<leaf>>]
            @@ (IF filters # <<>> THEN [filter |-> filters] ELSE <<>>)
            @@ (IF should_boosts # <<>>
                THEN [should |-> should_boosts, minimum_should_match |-> 0]
                ELSE <<>>)]

\* temporal_expressions or [], a set being sorted into a list
TemporalList(a) ==
    IF "temporal_expressions" \notin DOMAIN a THEN <<>>
    ELSE LET v == a.temporal_expressions
         IN  IF "set" \in DOMAIN v
             THEN IF v.set = {} THEN <<>> ELSE sorted(v.set)
             ELSE v.list

\* the soft temporal preference
TemporalBoosts(a) ==
    LET safe_years == expand_year_ranges(filter_safe_temporals(TemporalList(a)))
    IN  IF safe_years # <<>>
        THEN << [constant_score |->
                   [filter |-> [terms |-> [temporalExpressions |-> safe_years]],
                    boost |-> "0.6"]] >>
        ELSE <<>>

\* (ref.get("placeName") or "").strip()
PlaceName(ref) == strip(Arg(ref, "placeName", <<>>))

\* lat and lon of a reference: its own, else those of its "coordinates";
\* the result holds the keys that are not None
Coordinates(ref) ==
    IF {"lat", "lon"} \subseteq DOMAIN ref
    THEN [lat |-> ref.lat, lon |-> ref.lon]
    ELSE LET coords == Arg(ref, "coordinates", <<>>)
         IN  [key \in DOMAIN coords \cap {"lat", "lon"} |-> coords[key]]

HasCoordinates(ref) == DOMAIN Coordinates(ref) = {"lat", "lon"}

PlaceClause(place_name) ==
    [nested |->
        [path |-> "geoReferences",
         query |-> [match |->
            ("geoReferences.placeName" :> [query |-> place_name, boost |-> "5.0"])]]]

DistanceClause(ref, geo_distance_str) ==
    [geo_distance |->
        ("distance" :> geo_distance_str)
        @@ ("geoReferences.coordinates" :>
                [lat |-> Coordinates(ref).lat, lon |-> Coordinates(ref).lon])]

\* geo_place_should after the loop over geo_refs
GeoPlaceShould(refs) ==
    LET named == SelectSeq(refs, LAMBDA ref : PlaceName(ref) # <<>>)
    IN  [i \in 1..Len(named) |-> PlaceClause(PlaceName(named[i]))]

\* nested_distance_should after the loop over geo_refs
NestedDistanceShould(refs, geo_distance_str) ==
    LET located == SelectSeq(refs, HasCoordinates)
    IN  [i \in 1..Len(located) |-> DistanceClause(located[i], geo_distance_str)]

\* the constant-score boost over the geo_distance clauses
DistanceBoost(nested_distance_should) ==
    [constant_score |->
        [filter |->
            [nested |->
                [path |-> "geoReferences",
                 query |-> [bool |-> [should |-> nested_distance_should,
                                      minimum_should_match |-> 0]]]],
         boost |-> "2.0"]]

\* the soft geo preference
GeoBoosts(a) ==
    LET refs == Arg(a, "geo_refs", <<>>)
        nested_distance_should ==
            NestedDistanceShould(refs, Arg(a, "geo_distance_str", "50km"))
    IN  IF refs = <<>> THEN <<>>
        ELSE (IF nested_distance_should # <<>>
              THEN <<DistanceBoost(nested_distance_should)>>
              ELSE <<>>)
             \o GeoPlaceShould(refs)

KnnLeaf(a) ==
    [knn |->
        (("abstract_vector." \o Arg(a, "lang", "en")) :>
            [vector |-> a.semantic_query_vector,
             k |-> Arg(a, "k", 50),
             method_parameters |-> [ef_search |-> Arg(a, "num_candidates", 100)]])]

MultiMatchLeaf(a) ==
    [multi_match |->
        [query |-> a.lexical25_text,
         fields |-> << "title." \o Arg(a, "lang", "en") \o "^3",
                       "abstract." \o Arg(a, "lang", "en") \o "^2" >>,
         type |-> "best_fields",
         minimum_should_match |-> "60%"]]

build_hybrid_query_pipeline(a) ==
    LET filters == <<>>
        should_boosts == TemporalBoosts(a) \o GeoBoosts(a)
    IN  [size |-> Arg(a, "size", 10),
         _source |-> [excludes |-> <<"abstract_vector.en", "abstract_vector.ar">>],
         query |-> [hybrid |-> [queries |->
            << _wrap_with_filters(KnnLeaf(a), filters, should_boosts),
               _wrap_with_filters(MultiMatchLeaf(a), filters, should_boosts) >>]]]

---------------------------------------------------------------------------
(* The inputs of the hybrid query builder.                                 *)

MaxGeoRefs == 2

P_Gaza      == <<"G", "a", "z", "a">>
P_GazaLower == <<"g", "a", "z", "a">>
P_Nablus    == <<"N", "a", "b", "l", "u", "s">>
P_Jenin     == <<"J", "e", "n", "i", "n">>
P_Hebron    == <<"H", "e", "b", "r", "o", "n">>

R_Gaza      == [placeName |-> P_Gaza, lat |-> 31, lon |-> 34]
R_GazaLower == [placeName |-> P_GazaLower, lat |-> 31, lon |-> 34]
R_Nablus    == [placeName |-> P_Nablus, lat |-> 32, lon |-> 35]
R_Unnamed   == [placeName |-> <<>>, lat |-> 30, lon |-> 35]
R_NameOnly  == [placeName |-> P_Jenin]
R_BlankName == [placeName |-> <<" ">>]
R_Nested    == [placeName |-> P_Hebron, coordinates |-> [lat |-> 31, lon |-> 35]]
R_Split     == [lat |-> 31, coordinates |-> [lon |-> 35]]

GeoRefPool ==
    {R_Gaza, R_GazaLower, R_Nablus, R_Unnamed, R_NameOnly, R_BlankName,
     R_Nested, R_Split}

BoostTemporals == {T_2019_2021, T_Winter, T_Percent}

\* temporal_expressions: left out (None), a list or a set
TemporalArgs ==
    {<<>>}
    \cup {[temporal_expressions |-> [list |-> l]] : l \in ListsUpTo(BoostTemporals, 1)}
    \cup {[temporal_expressions |-> [set |-> S]] : S \in SUBSET BoostTemporals}

\* geo_refs: left out (None) or a list
GeoArgs ==
    {<<>>} \cup {[geo_refs |-> l] : l \in ListsUpTo(GeoRefPool, MaxGeoRefs)}

LangArgs == {<<>>, [lang |-> "ar"]}

HybridArgs ==
    {[lexical25_text |-> "funding in Gaza", semantic_query_vector |-> <<1, 2>>]
        @@ t @@ g @@ l : t \in TemporalArgs, g \in GeoArgs, l \in LangArgs}

---------------------------------------------------------------------------
(* SpecHybrid: build_hybrid_query_pipeline called with every argument list *)

InitHybrid ==
    /\ pc = "start"
    /\ StreamIdle
    /\ SuggestIdle
    /\ args \in HybridArgs
    /\ body = <<>>
    /\ temporals = <<>>
    /\ safe = <<>>
    /\ expanded = <<>>
    /\ QueryIdle
    /\ IngestIdle

\* body = build_hybrid_query_pipeline(**args)
BuildHybridQuery ==
    /\ pc = "start"
    /\ body' = build_hybrid_query_pipeline(args)
    /\ pc' = "built"
    /\ UNCHANGED <<streamVars, suggestVars,
                   args, temporalVars, queryVars, ingestVars>>

NextHybrid == BuildHybridQuery

SpecHybrid == InitHybrid /\ [][NextHybrid]_vars

---------------------------------------------------------------------------
(* Properties of the hybrid query builder.                                 *)

Legs == body.query.hybrid.queries

LeafKey(i) == IF i = 1 THEN "knn" ELSE "multi_match"

Leaf(i) == IF i = 1 THEN KnnLeaf(args) ELSE MultiMatchLeaf(args)

HasShould(leg) == "bool" \in DOMAIN leg /\ "should" \in DOMAIN leg.bool

\* C1: in each of the two legs the temporal and geographic evidence is
\* advisory only: the leg carries no `filter` clause, its `must` list holds
\* exactly the leaf query (knn or multi_match), and a `should` list comes
\* with minimum_should_match = 0.
C1_BoostsAreAdvisory ==
    pc = "built" =>
        /\ Len(Legs) = 2
        /\ \A i \in 1..2 :
              \/ Legs[i] = Leaf(i)
              \/ /\ DOMAIN Legs[i] = {"bool"}
                 /\ "filter" \notin DOMAIN Legs[i].bool
                 /\ Len(Legs[i].bool.must) = 1
                 /\ DOMAIN Legs[i].bool.must[1] = {LeafKey(i)}
                 /\ Legs[i].bool.must = <<Leaf(i)>>
                 /\ "should" \in DOMAIN Legs[i].bool =>
                       /\ "minimum_should_match" \in DOMAIN Legs[i].bool
                       /\ Legs[i].bool.minimum_should_match = 0

\* both legs carry a temporal boost, a distance boost and a place boost
C1_Witness ==
    /\ pc = "built"
    /\ {"temporal_expressions", "geo_refs"} \subseteq DOMAIN args
    /\ args.temporal_expressions = [list |-> <<T_2019_2021>>]
    /\ args.geo_refs = <<R_Gaza>>
    /\ \A i \in 1..2 : HasShould(Legs[i]) /\ Len(Legs[i].bool.should) = 3

\* the temporal strings of the call, whatever their container
TemporalItems(a) ==
    IF "temporal_expressions" \notin DOMAIN a THEN {}
    ELSE IF "set" \in DOMAIN a.temporal_expressions
         THEN a.temporal_expressions.set
         ELSE {a.temporal_expressions.list[i] :
                  i \in 1..Len(a.temporal_expressions.list)}

GeoRefItems(a) ==
    IF "geo_refs" \notin DOMAIN a THEN {}
    ELSE {a.geo_refs[i] : i \in 1..Len(a.geo_refs)}

HasPlaceName(ref) == "placeName" \in DOMAIN ref /\ Trimmed(ref.placeName) # <<>>

\* both coordinates, given directly or under "coordinates"
HasBothCoordinates(ref) ==
    \/ {"lat", "lon"} \subseteq DOMAIN ref
    \/ /\ "coordinates" \in DOMAIN ref
       /\ {"lat", "lon"} \subseteq DOMAIN ref.coordinates

\* at least one boost is derived from the inputs
BoostDerived(a) ==
    \/ \E t \in TemporalItems(a) : IsSafeTemporal(Trimmed(t))
    \/ \E ref \in GeoRefItems(a) : HasPlaceName(ref) \/ HasBothCoordinates(ref)

\* C2: with empty (or None) temporals and empty (or None) geo references
\* the two legs are the bare knn and multi_match leaf queries; in general a
\* leg has a `should` clause if and only if at least one boost was derived
\* from the inputs, and it never has a `filter` clause.
C2_BoostsOnlyWhenDerived ==
    pc = "built" =>
        /\ (TemporalItems(args) = {} /\ GeoRefItems(args) = {})
              => Legs = <<KnnLeaf(args), MultiMatchLeaf(args)>>
        /\ \A i \in 1..2 :
              /\ HasShould(Legs[i]) <=> BoostDerived(args)
              /\ ~BoostDerived(args) => Legs[i] = Leaf(i)
              /\ "bool" \in DOMAIN Legs[i] => "filter" \notin DOMAIN Legs[i].bool

\* temporals that are all non-year phrases, and references without a place
\* name or coordinates, added no clause
C2_Witness ==
    /\ pc = "built"
    /\ {"temporal_expressions", "geo_refs"} \subseteq DOMAIN args
    /\ args.temporal_expressions = [set |-> {T_Winter, T_Percent}]
    /\ args.geo_refs = <<R_BlankName, R_Split>>
    /\ Legs = <<KnnLeaf(args), MultiMatchLeaf(args)>>

(* How the search engine matches the clauses the builder emits: a          *)
(* geo_distance clause matches a nested object within the distance of its  *)
(* point (on the grid of whole degrees, 50 km apart means the same point); *)
(* a bool query made only of `should` clauses matches when at least        *)
(* minimum_should_match of them do; a nested query matches a document one  *)
(* of whose nested objects matches the inner query.                        *)

WithinDistance(obj, clause) ==
    obj.coordinates = clause.geo_distance["geoReferences.coordinates"]

ShouldOnlyBoolMatches(b, obj) ==
    Cardinality({i \in 1..Len(b.should) : WithinDistance(obj, b.should[i])})
        >= b.minimum_should_match

NestedMatches(nested, doc) ==
    \E n \in 1..Len(doc.geoReferences) :
        ShouldOnlyBoolMatches(nested.query.bool, doc.geoReferences[n])

\* the weight-2.0 boosts among the should clauses of a leg
DistanceBoostsOf(leg) ==
    IF HasShould(leg)
    THEN {leg.bool.should[i].constant_score : i \in
            {j \in 1..Len(leg.bool.should) :
                /\ "constant_score" \in DOMAIN leg.bool.should[j]
                /\ leg.bool.should[j].constant_score.boost = "2.0"}}
    ELSE {}

EarnsDistanceBoost(doc) ==
    \E i \in 1..2 : \E boost \in DistanceBoostsOf(Legs[i]) :
        NestedMatches(boost.filter.nested, doc)

D_InGaza  == [geoReferences |-> <<[placeName |-> P_Gaza,
                                   coordinates |-> [lat |-> 31, lon |-> 34]]>>]
D_FarAway == [geoReferences |-> <<[placeName |-> P_Jenin,
                                   coordinates |-> [lat |-> 40, lon |-> 10]]>>]
D_NoGeo   == [geoReferences |-> <<>>]

Documents == {D_InGaza, D_FarAway, D_NoGeo}

PlaceClausesOf(leg) ==
    IF HasShould(leg)
    THEN SelectSeq(leg.bool.should, LAMBDA c : "nested" \in DOMAIN c)
    ELSE <<>>

\* C4: the should list holds exactly one weight-5.0 place-name clause per
\* distinct place name, names that differ only in letter case being the
\* same place, and a reference with an empty place name adds none.
C4_OnePlaceClausePerDistinctName ==
    pc = "built" =>
        LET names == {lower(Trimmed(ref.placeName)) :
                         ref \in {r \in GeoRefItems(args) : HasPlaceName(r)}}
        IN  \A i \in 1..2 :
               /\ Len(PlaceClausesOf(Legs[i])) = Cardinality(names)
               /\ \A name \in names :
                     \E c \in 1..Len(PlaceClausesOf(Legs[i])) :
                        lower(PlaceClausesOf(Legs[i])[c].nested.query.match
                                 ["geoReferences.placeName"].query) = name

---------------------------------------------------------------------------
(* src/src/query_utils/query_preprocessor.py and                           *)
(* src/src/services/an_najah_repository_search_service.py: the query path  *)
(* user_query -> prepare_input -> extractors -> build_hybrid_query_pipeline.*)
(* The language detector, the two extractors, the geocoding service and    *)
(* the embedding model are collaborators: what they answer is drawn in the *)
(* initial state.  A set is iterated in no particular order, so the loop   *)
(* of extractors takes the candidates in every order.                      *)

None == [kind |-> "None"]

BAD_LOCATION_WORDS ==
    {<<"m", "a", "n", "a", "g", "e", "m", "e", "n", "t">>,
     <<"s", "y", "s", "t", "e", "m">>,
     <<"m", "o", "d", "e", "l">>,
     <<"p", "r", "o", "j", "e", "c", "t">>,
     <<"s", "t", "r", "a", "t", "e", "g", "y">>,
     <<"a", "n", "a", "l", "y", "s", "i", "s">>,
     <<"s", "p", "s", "s">>,
     <<"t", "a", "m">>,
     <<"t", "p", "b">>,
     <<"p", "m", "a">>,
     <<"c", "s", "r">>}

\* w in low
Contains(low, w) ==
    \E i \in 1..(Len(low) - Len(w) + 1) : SubSeq(low, i, i + Len(w) - 1) = w

\* str.isupper(): some cased character, and no lower-case one
isupper(t) ==
    /\ \E i \in 1..Len(t) : IsUpper(t[i])
    /\ \A i \in 1..Len(t) : ~IsLower(t[i])

is_probable_location_short_ok(name) ==
    LET t == strip(name)
    IN  /\ t # <<>>
        /\ ~(Len(t) <= 1)
        /\ ~(isupper(t) /\ Len(t) <= 6)
        /\ ~(\E w \in BAD_LOCATION_WORDS : Contains(lower(t), w))

is_probable_location(name) ==
    LET t == strip(name)
    IN  /\ t # <<>>
        /\ ~(Len(t) <= 2)
        /\ ~(isupper(t) /\ Len(t) <= 6)
        /\ ~(\E w \in BAD_LOCATION_WORDS : Contains(lower(t), w))

\* the ways a call of the geocoding service fails
GeocoderFailures == {"no_result", "timeout", "unavailable", "service_error", "error"}

_geocode_placeholder_on_failure(answer, place_name) ==
    IF answer.kind = "found"
    THEN [placeName |-> place_name,
          coordinates |-> [lat |-> answer.latitude, lon |-> answer.longitude]]
    ELSE [placeName |-> place_name, coordinates |-> [lat |-> 0, lon |-> 0]]

\* _geocode_single_place(place_name), answer being what the service does
_geocode_single_place(answer, place_name) ==
    IF answer.kind = "found"
    THEN [placeName |-> place_name,
          coordinates |-> [lat |-> answer.latitude, lon |-> answer.longitude]]
    ELSE None

\* the dict extractors appends for a resolved place
GeoRefOf(geo) ==
    [placeName |-> geo.placeName,
     lat |-> geo.coordinates.lat,
     lon |-> geo.coordinates.lon]

\* the cap of extractors on the resolved references
GeoRefCap == 3

CapReachedLate(refs) == Len(refs) > GeoRefCap

\* len(geo_refs) >= 3
CapReached(refs) == Len(refs) >= GeoRefCap

\* clean_query_text: every text it can return (one per order of the phrases)
clean_query_text(query, temporal_expressions, locs) ==
    {CleanWithOrder(query, order) :
        order \in PhraseOrders(Phrases(temporal_expressions, locs))}

\* build_lexical_text: every text it can return
build_lexical_text(query, temporal_set, locs) ==
    {strip_year_like_tokens(text) :
        text \in clean_query_text(query, NoisyTemporals(temporal_set), {})}

\* vector_model.encode([text])[0].tolist(): the embedding of a text
encode(text) == [embedding_of |-> text]

Range(s) == {s[i] : i \in 1..Len(s)}

---------------------------------------------------------------------------
(* The user queries and the answers of the collaborators.                  *)

MaxLocations == 4

P_Ramallah == <<"R", "a", "m", "a", "l", "l", "a", "h">>
P_Baghdad  == <<"B", "a", "g", "h", "d", "a", "d">>
P_GazaCity == <<"G", "a", "z", "a", " ", "C", "i", "t", "y">>
P_WB       == <<"W", "B">>
P_SPSS     == <<"S", "P", "S", "S">>

Q_Baghdad ==
    <<"s", "t", "u", "d", "i", "e", "s", " ", "o", "n", " ", "B", "a",
      "g", "h", "d", "a", "d", " ", "f", "r", "o", "m", " ", "2", "0",
      "1", "5">>

Q_Funding ==
    <<"f", "u", "n", "d", "i", "n", "g", " ", "f", "r", "o", "m", " ",
      "2", "0", "1", "3", " ", "t", "o", " ", "2", "0", "1", "9", " ",
      "i", "n", " ", "G", "a", "z", "a">>

Q_GazaCity ==
    <<"a", "i", "d", " ", "i", "n", " ", "G", "a", "z", "a", " ", "C",
      "i", "t", "y", " ", "a", "n", "d", " ", "g", "a", "z", "a", ",",
      " ", "2", "0", "1", "3", "-", "2", "0", "1", "9">>

Q_Short ==
    <<"i", "n", " ", "G", "a", "z", "a">>

Q_Blank == <<" ", " ">>

T_2015      == <<"2", "0", "1", "5">>
T_2013To    == <<"2", "0", "1", "3", " ", "t", "o", " ", "2", "0", "1", "9">>
T_2013_2019 == <<"2", "0", "1", "3", "-", "2", "0", "1", "9">>

\* a query whose text is prepared, with what the extractors find in it
TextQueries ==
    {[q |-> Q_Baghdad, temporals |-> {T_2015}, locations |-> {P_Baghdad}],
     [q |-> Q_Funding, temporals |-> {T_2013To}, locations |-> {P_Gaza}],
     [q |-> Q_GazaCity, temporals |-> {T_2013_2019},
      locations |-> {P_GazaCity, P_Gaza}],
     [q |-> Q_Blank, temporals |-> {}, locations |-> {}]}

LocationPool == {P_Ramallah, P_Gaza, P_Nablus, P_Jenin, P_WB}

MaxNameLen == 3

P_NABLUSS   == <<"N", "A", "B", "L", "U", "S", "S">>
P_DataModel == <<"D", "a", "t", "a", " ", "M", "o", "d", "e", "l">>
P_Tamra     == <<"T", "a", "m", "r", "a">>
P_1948      == <<"1", "9", "4", "8">>

NameLetters == {"A", "a", "m", "p", " "}

\* the candidate names the plausibility filter is tried on
NamePool ==
    ListsUpTo(NameLetters, MaxNameLen)
    \cup {P_WB, P_SPSS, P_Ramallah, P_NABLUSS, P_DataModel, P_Tamra, P_1948}

\* a query for which the location extractor returns any candidates
LocationQueries ==
    {[q |-> Q_Short, temporals |-> {}, locations |-> L] :
        L \in {S \in SUBSET LocationPool : Cardinality(S) <= MaxLocations}
               \cup {{name} : name \in NamePool}}

QueryInputs == TextQueries \cup LocationQueries

\* where the geocoding service puts a place, in whole degrees
Gazetteer(place) ==
    CASE place = P_Gaza \/ place = P_GazaCity -> [latitude |-> 31, longitude |-> 34]
      [] place = P_Nablus \/ place = P_Jenin  -> [latitude |-> 32, longitude |-> 35]
      [] place = P_Baghdad                    -> [latitude |-> 33, longitude |-> 44]
      [] OTHER                                -> [latitude |-> 31, longitude |-> 35]

\* how the service fails for a place, when it does
FailureOf(place) ==
    CASE place = P_Gaza     -> "timeout"
      [] place = P_Nablus   -> "unavailable"
      [] place = P_Jenin    -> "service_error"
      [] place = P_Ramallah -> "no_result"
      [] OTHER              -> "error"

\* the service resolves the places of L except those of F
GeocoderOf(L, F) ==
    [place \in L |->
        IF place \in F
        THEN [kind |-> FailureOf(place)]
        ELSE [kind |-> "found"] @@ Gazetteer(place)]

Geocoders(L) == {GeocoderOf(L, F) : F \in SUBSET {p \in L : is_probable_location(p)}}

\* what langdetect can return
DetectedLanguages == {"en", "ar", "fr"}

---------------------------------------------------------------------------
(* SpecQuery: AnNajahRepositorySearchService.user_query handles one query. *)

InitQuery ==
    /\ pc = "start"
    /\ StreamIdle
    /\ SuggestIdle
    /\ \E input \in QueryInputs :
          /\ q = input.q
          /\ extracted = [temporals |-> input.temporals, locations |-> input.locations]
          /\ geocoder \in Geocoders(input.locations)
    /\ lang = "en"
    /\ temporals = {}
    /\ locations = {}
    /\ geo_refs = <<>>
    /\ semantic_clean_query = <<>>
    /\ lexical25_clean_query = <<>>
    /\ visited = <<>>
    /\ geocoded = <<>>
    /\ safe = <<>>
    /\ expanded = <<>>
    /\ args = <<>>
    /\ body = <<>>
    /\ IngestIdle

\* prepare_input: lang = detect(q), any other language becoming "en"
DetectLanguage ==
    /\ pc = "start"
    /\ \E detected \in DetectedLanguages :
          lang' = IF detected \notin {"en", "ar"} THEN "en" ELSE detected
    /\ pc' = "detected"
    /\ UNCHANGED <<streamVars, suggestVars,
                   temporalVars, hybridVars, q, locations, geo_refs,
                   semantic_clean_query, lexical25_clean_query, extracted,
                   geocoder, visited, geocoded, ingestVars>>

\* prepare_input: detect(q) raises, and so does user_query
DetectRaises ==
    /\ pc = "start"
    /\ pc' = "raised"
    /\ UNCHANGED <<streamVars, suggestVars,
                   temporalVars, hybridVars, queryVars, ingestVars>>

\* extractors: the two extract calls, each validating the text first
ExtractSignals ==
    /\ pc = "detected"
    /\ IF strip(q) = <<>>
       THEN /\ pc' = "raised"
            /\ UNCHANGED <<temporals, locations, ingestVars>>
       ELSE /\ temporals' = extracted.temporals
            /\ locations' = extracted.locations
            /\ pc' = "loop"
    /\ UNCHANGED <<streamVars, suggestVars,
                   safe, expanded, hybridVars, q, lang, geo_refs,
                   semantic_clean_query, lexical25_clean_query, extracted,
                   geocoder, visited, geocoded, ingestVars>>

\* extractors: an extract call raises, the NLP pipeline having failed, and
\* so do prepare_input and user_query
ExtractRaises ==
    /\ pc = "detected"
    /\ pc' = "raised"
    /\ UNCHANGED <<streamVars, suggestVars, temporalVars, hybridVars, queryVars,
                   ingestVars>>

\* extractors: one iteration of `for location in locations`
VisitLocation ==
    /\ pc = "loop"
    /\ \E location \in locations \ Range(visited) :
          /\ visited' = Append(visited, location)
          /\ IF ~is_probable_location(location)
             THEN UNCHANGED <<geocoded, geo_refs, pc, ingestVars>>
             ELSE LET geo == _geocode_single_place(geocoder[location], location)
                  IN  /\ geocoded' = Append(geocoded, location)
                      /\ IF geo = None
                         THEN UNCHANGED <<geo_refs, pc, ingestVars>>
                         ELSE /\ geo_refs' = Append(geo_refs, GeoRefOf(geo))
                              /\ pc' = IF CapReached(geo_refs')
                                       THEN "resolved" ELSE "loop"
    /\ UNCHANGED <<streamVars, suggestVars,
                   temporalVars, hybridVars, q, lang, locations,
                   semantic_clean_query, lexical25_clean_query, extracted,
                   geocoder, ingestVars>>

\* extractors: the loop has taken every candidate
LoopExhausted ==
    /\ pc = "loop"
    /\ locations \subseteq Range(visited)
    /\ pc' = "resolved"
    /\ UNCHANGED <<streamVars, suggestVars,
                   temporalVars, hybridVars, queryVars, ingestVars>>

\* prepare_input: the semantic and the lexical text
PrepareTexts ==
    /\ pc = "resolved"
    /\ semantic_clean_query' \in clean_query_text(q, temporals, locations)
    /\ lexical25_clean_query' \in build_lexical_text(q, temporals, locations)
    /\ pc' = "prepared"
    /\ UNCHANGED <<streamVars, suggestVars,
                   temporalVars, hybridVars, q, lang, locations, geo_refs,
                   extracted, geocoder, visited, geocoded, ingestVars>>

\* user_query: body = build_hybrid_query_pipeline(...)
BuildUserQuery ==
    /\ pc = "prepared"
    /\ args' = [lexical25_text |-> lexical25_clean_query,
                semantic_query_vector |-> encode(semantic_clean_query),
                temporal_expressions |-> [set |-> temporals],
                geo_refs |-> geo_refs,
                num_candidates |-> 100,
                lang |-> lang]
    /\ body' = build_hybrid_query_pipeline(args')
    /\ pc' = "built"
    /\ UNCHANGED <<streamVars, suggestVars,
                   temporalVars, queryVars, ingestVars>>

NextQuery ==
    \/ DetectLanguage
    \/ DetectRaises
    \/ ExtractSignals
    \/ ExtractRaises
    \/ VisitLocation
    \/ LoopExhausted
    \/ PrepareTexts
    \/ BuildUserQuery

SpecQuery == InitQuery /\ [][NextQuery]_vars

---------------------------------------------------------------------------
(* Properties of the query path.                                           *)

Resolves(place) == is_probable_location(place) /\ geocoder[place].kind = "found"

\* the references of the resolved candidates among those visited, in the
\* order of the visits
ResolvedVisits ==
    LET hits == SelectSeq(visited, LAMBDA place : Resolves(place))
    IN  [k \in 1..Len(hits) |->
            [placeName |-> hits[k],
             lat |-> geocoder[hits[k]].latitude,
             lon |-> geocoder[hits[k]].longitude]]

\* C10: whatever candidates the extractor returns and whatever the geocoder
\* answers, extractors holds (and so returns) at most 3 geo references,
\* they are those of the resolved candidates in the order the candidates
\* were visited, and no call of the geocoder is made once 3 references
\* have been resolved.
C10_CapStopsTheResolver ==
    /\ [](Len(geo_refs) <= 3 /\ geo_refs = ResolvedVisits)
    /\ [][Len(geo_refs) < 3]_geocoded

\* three candidates were resolved and returned while a fourth candidate the
\* geocoder would have resolved was never passed to it
C10_Witness ==
    /\ pc = "resolved"
    /\ Len(geo_refs) = 3
    /\ Len(geocoded) >= 3
    /\ \E place \in locations \ Range(visited) :
          Resolves(place) /\ place \notin Range(geocoded)

\* C5: the request body user_query builds collapses the hits on the
\* document-family key bitstream_uuid.
C5_UserQueryBodyCollapses ==
    pc = "built" =>
        /\ "collapse" \in DOMAIN body
        /\ body.collapse.field = "bitstream_uuid"

\* C11: while one query is handled, the number of calls of the geocoder
\* never exceeds the cap of 3, whatever candidates the extractor returns
\* and whichever calls fail.
C11_GeocoderCallsWithinCap == Len(geocoded) <= 3

\* the rejection rule as the filter is documented: on the trimmed name
ClaimRejects(name) ==
    LET t == Trimmed(name)
        low == [i \in 1..Len(t) |-> LowerChar(t[i])]
        letters == {i \in 1..Len(t) : IsUpper(t[i]) \/ IsLower(t[i])}
    IN  \/ t = <<>>
        \/ Len(t) <= 2
        \/ letters # {} /\ (\A i \in letters : IsUpper(t[i])) /\ Len(t) <= 6
        \/ \E w \in BAD_LOCATION_WORDS :
              \E i \in 1..Len(low) :
                 /\ i + Len(w) - 1 <= Len(low)
                 /\ \A k \in 1..Len(w) : low[i + k - 1] = w[k]

\* C12: the geocoder is called only with candidates is_probable_location
\* accepts; is_probable_location rejects a candidate exactly when it is
\* empty after trimming, has length <= 2, is all-uppercase with length <= 6
\* or contains a stoplist word in lower case ("WB", "SPSS" and "" rejected,
\* "Ramallah" accepted); a rejected candidate causes no geocoder call and
\* an accepted one at most one.
C12_GeocoderOnlyForPlausible ==
    /\ \A place \in extracted.locations :
          is_probable_location(place) <=> ~ClaimRejects(place)
    /\ ~is_probable_location(P_WB)
    /\ ~is_probable_location(P_SPSS)
    /\ ~is_probable_location(<<>>)
    /\ is_probable_location(P_Ramallah)
    /\ \A k \in 1..Len(geocoded) :
          /\ ~ClaimRejects(geocoded[k])
          /\ geocoded[k] \in Range(visited)
          /\ \A j \in 1..Len(geocoded) : geocoded[j] = geocoded[k] => j = k
    /\ \A place \in Range(visited) :
          ClaimRejects(place) => place \notin Range(geocoded)

\* the loop took the acronym "WB" and the name "Ramallah": only the name
\* was passed to the geocoder
C12_Witness ==
    /\ pc = "resolved"
    /\ {P_WB, P_Ramallah} \subseteq Range(visited)
    /\ geocoded = <<P_Ramallah>>

---------------------------------------------------------------------------
(* src/src/extracters/abstract_classes/abc_geo_location_finder.py and      *)
(* src/src/query_utils/query_preprocessor.py: the two callers of           *)
(* _geocode_single_place, each as one call over a list of places.  A loop  *)
(* state holds the references accumulated and the names passed to the      *)
(* geocoder so far.                                                        *)

\* ABCGeoLocationFinder.extract_from_places: the loop over places
RECURSIVE ExtractFromPlacesLoop(_, _, _)
ExtractFromPlacesLoop(service, places, acc) ==
    IF places = <<>> THEN acc
    ELSE LET place == Head(places)
         IN  IF place = <<>> \/ strip(place) = <<>>
             THEN ExtractFromPlacesLoop(service, Tail(places), acc)
             ELSE LET result == _geocode_single_place(service[strip(place)],
                                                      strip(place))
                  IN  ExtractFromPlacesLoop(service, Tail(places),
                        [geo_refs |-> IF result # None
                                      THEN Append(acc.geo_refs, result)
                                      ELSE acc.geo_refs,
                         geocoded |-> Append(acc.geocoded, strip(place))])

extract_from_places(service, places) ==
    ExtractFromPlacesLoop(service, places, [geo_refs |-> <<>>, geocoded |-> <<>>])

\* extractors: the loop over locations, taken in the order of the list
RECURSIVE ExtractorsLoop(_, _, _)
ExtractorsLoop(service, locs, acc) ==
    IF locs = <<>> THEN acc
    ELSE LET location == Head(locs)
         IN  IF ~is_probable_location(location)
             THEN ExtractorsLoop(service, Tail(locs), acc)
             ELSE LET geo == _geocode_single_place(service[location], location)
                      called == Append(acc.geocoded, location)
                  IN  IF geo = None
                      THEN ExtractorsLoop(service, Tail(locs),
                             [geo_refs |-> acc.geo_refs, geocoded |-> called])
                      ELSE LET refs == Append(acc.geo_refs, GeoRefOf(geo))
                           IN  IF CapReached(refs)
                               THEN [geo_refs |-> refs, geocoded |-> called]
                               ELSE ExtractorsLoop(service, Tail(locs),
                                      [geo_refs |-> refs, geocoded |-> called])

---------------------------------------------------------------------------
(* The place lists and the answers of the geocoding service.               *)

MaxPlaces == 3

P_GazaPadded == <<" ", "G", "a", "z", "a", " ">>

PlacePool == {P_Gaza, P_GazaPadded, P_Nablus, P_Baghdad, P_WB, <<>>, <<" ">>}

PlaceLists == ListsUpTo(PlacePool, MaxPlaces)

\* the names a list of places can send to the geocoder
NamesOf(places) ==
    {places[i] : i \in 1..Len(places)} \cup {strip(places[i]) : i \in 1..Len(places)}

---------------------------------------------------------------------------
(* SpecGeocoding: a list of places resolved by either caller.              *)

InitGeocoding ==
    /\ pc = "start"
    /\ StreamIdle
    /\ SuggestIdle
    /\ \E places \in PlaceLists :
          /\ args = [places |-> places]
          /\ geocoder \in {GeocoderOf(NamesOf(places), F) :
                             F \in SUBSET (NamesOf(places) \ {<<>>, <<" ">>, P_WB})}
    /\ geo_refs = <<>>
    /\ geocoded = <<>>
    /\ body = <<>>
    /\ temporals = <<>>
    /\ safe = <<>>
    /\ expanded = <<>>
    /\ q = <<>>
    /\ lang = "en"
    /\ locations = {}
    /\ semantic_clean_query = <<>>
    /\ lexical25_clean_query = <<>>
    /\ extracted = [temporals |-> {}, locations |-> {}]
    /\ visited = <<>>
    /\ IngestIdle

\* OpenSearchInsertion.get_geo_points(place_names)
ResolveAtIngestion ==
    /\ pc = "start"
    /\ LET done == extract_from_places(geocoder, args.places)
       IN  /\ geo_refs' = done.geo_refs
           /\ geocoded' = done.geocoded
    /\ pc' = "ingest_resolved"
    /\ UNCHANGED <<streamVars, suggestVars,
                   temporalVars, hybridVars, q, lang, locations,
                   semantic_clean_query, lexical25_clean_query, extracted,
                   geocoder, visited, ingestVars>>

\* extractors: the loop over the extracted locations, a set whose
\* iteration order is that of the list
ResolveOnQueryPath ==
    /\ pc = "start"
    /\ \A i \in 1..Len(args.places) : \A j \in 1..Len(args.places) :
          args.places[i] = args.places[j] => i = j
    /\ LET done == ExtractorsLoop(geocoder, args.places,
                                  [geo_refs |-> <<>>, geocoded |-> <<>>])
       IN  /\ geo_refs' = done.geo_refs
           /\ geocoded' = done.geocoded
    /\ pc' = "query_resolved"
    /\ UNCHANGED <<streamVars, suggestVars,
                   temporalVars, hybridVars, q, lang, locations,
                   semantic_clean_query, lexical25_clean_query, extracted,
                   geocoder, visited, ingestVars>>

NextGeocoding == ResolveAtIngestion \/ ResolveOnQueryPath

SpecGeocoding == InitGeocoding /\ [][NextGeocoding]_vars

---------------------------------------------------------------------------
(* Properties of the geocoding callers.                                    *)

\* the calls of the geocoder that the service answered with a location
Successes == SelectSeq(geocoded, LAMBDA place : geocoder[place].kind = "found")

\* the places of a list that extract_from_places has to try: the non-blank
\* ones, trimmed
UsablePlaces(places) ==
    LET usable == SelectSeq(places, LAMBDA place : Trimmed(place) # <<>>)
    IN  [k \in 1..Len(usable) |-> Trimmed(usable[k])]

\* C13: _geocode_single_place never raises, a failure of any kind yields
\* None and never a placeholder coordinate; both callers skip the place
\* that failed and go on, so that the result holds exactly the places
\* geocoded with success, with the coordinates the service gave.
C13_FailuresAreSkipped ==
    /\ \A k \in 1..Len(geocoded) :
          LET place == geocoded[k]
              result == _geocode_single_place(geocoder[place], place)
          IN  IF geocoder[place].kind \in GeocoderFailures
              THEN result = None
              ELSE result = [placeName |-> place,
                             coordinates |-> [lat |-> geocoder[place].latitude,
                                              lon |-> geocoder[place].longitude]]
    /\ pc = "ingest_resolved" =>
          /\ geocoded = UsablePlaces(args.places)
          /\ geo_refs = [k \in 1..Len(Successes) |->
                           [placeName |-> Successes[k],
                            coordinates |->
                               [lat |-> geocoder[Successes[k]].latitude,
                                lon |-> geocoder[Successes[k]].longitude]]]
    /\ pc = "query_resolved" =>
          /\ Len(geo_refs) < 3 =>
                geocoded = SelectSeq(args.places,
                                     LAMBDA place : ~ClaimRejects(place))
          /\ geo_refs = [k \in 1..Len(Successes) |->
                           [placeName |-> Successes[k],
                            lat |-> geocoder[Successes[k]].latitude,
                            lon |-> geocoder[Successes[k]].longitude]]

\* a call failed and a later place of the same list was still resolved
C13_Witness ==
    /\ pc \in {"ingest_resolved", "query_resolved"}
    /\ \E j \in 1..Len(geocoded) : \E k \in 1..Len(geocoded) :
          /\ j < k
          /\ geocoder[geocoded[j]].kind \in GeocoderFailures
          /\ geocoder[geocoded[k]].kind = "found"
    /\ Len(geo_refs) >= 1

---------------------------------------------------------------------------
(* The inputs of the text normaliser: queries made of a few words, and     *)
(* what the extractors report for them.                                    *)

MaxWords == 2

W_New == <<"N", "e", "w">>
W_York == <<"Y", "o", "r", "k">>
W_GazaComma == <<"g", "a", "z", "a", ",">>
W_1990s == <<"1", "9", "9", "0", "s">>
P_NewYork == <<"N", "e", "w", " ", "Y", "o", "r", "k">>
P_WinterPark == <<"W", "i", "n", "t", "e", "r", " ", "P", "a", "r", "k">>
T_WinterLower == <<"w", "i", "n", "t", "e", "r">>
Q_NewGazaYork == <<"N", "e", "w", " ", "G", "a", "z", "a", " ", "Y", "o", "r", "k">>
Q_WinterPark == <<"W", "i", "n", "t", "e", "r", " ", "P", "a", "r", "k", " ", "i", "n", " ", "w", "i", "n", "t", "e", "r">>

QueryWords == {W_New, P_Gaza, W_York, W_GazaComma, T_2015, W_1990s}

\* " ".join(words)
RECURSIVE Join(_)
Join(words) ==
    IF words = <<>> THEN <<>>
    ELSE IF Len(words) = 1 THEN words[1]
    ELSE words[1] \o <<" ">> \o Join(Tail(words))

WordQueries == {Join(words) : words \in ListsUpTo(QueryWords, MaxWords)}

\* what the temporal and the location extractor report
Extractions ==
    {[temporals |-> {}, locations |-> {P_Gaza, P_NewYork}],
     [temporals |-> {T_2015}, locations |-> {P_Gaza}],
     [temporals |-> {W_1990s}, locations |-> {P_NewYork, W_York}]}

TextInputs ==
    {[q |-> query, temporals |-> e.temporals, locations |-> e.locations] :
        query \in WordQueries, e \in Extractions}
    \cup TextQueries
    \cup {[q |-> Q_WinterPark, temporals |-> {T_WinterLower},
           locations |-> {P_WinterPark}],
          [q |-> Q_NewGazaYork, temporals |-> {},
           locations |-> {P_Gaza, P_NewYork}]}

---------------------------------------------------------------------------
(* SpecText: clean_query_text and build_lexical_text applied to a query.   *)

InitText ==
    /\ pc = "start"
    /\ StreamIdle
    /\ SuggestIdle
    /\ \E input \in TextInputs :
          /\ q = input.q
          /\ extracted = [temporals |-> input.temporals,
                          locations |-> input.locations]
    /\ semantic_clean_query = <<>>
    /\ lexical25_clean_query = <<>>
    /\ lang = "en"
    /\ locations = {}
    /\ geo_refs = <<>>
    /\ geocoder = <<>>
    /\ visited = <<>>
    /\ geocoded = <<>>
    /\ temporals = <<>>
    /\ safe = <<>>
    /\ expanded = <<>>
    /\ args = <<>>
    /\ body = <<>>
    /\ IngestIdle

\* clean_query_text(q, temporals, locations)
ApplyClean ==
    /\ pc = "start"
    /\ semantic_clean_query' \in
          clean_query_text(q, extracted.temporals, extracted.locations)
    /\ pc' = "cleaned"
    /\ UNCHANGED <<streamVars, suggestVars,
                   temporalVars, hybridVars, q, lang, locations, geo_refs,
                   lexical25_clean_query, extracted, geocoder, visited, geocoded, ingestVars>>

\* build_lexical_text(q, temporals, locations)
ApplyLexical ==
    /\ pc = "start"
    /\ lexical25_clean_query' \in
          build_lexical_text(q, extracted.temporals, extracted.locations)
    /\ pc' = "lexical"
    /\ UNCHANGED <<streamVars, suggestVars,
                   temporalVars, hybridVars, q, lang, locations, geo_refs,
                   semantic_clean_query, extracted, geocoder, visited, geocoded, ingestVars>>

NextText == ApplyClean \/ ApplyLexical

SpecText == InitText /\ [][NextText]_vars

---------------------------------------------------------------------------
(* Properties of the text normaliser.                                      *)

WordChar(c) ==
    c \in {Digits[d] : d \in 1..10} \cup {UpperCase[k] : k \in 1..26}
          \cup {LowerCase[k] : k \in 1..26} \cup {"_"}

\* a word starts or ends between text[p - 1] and text[p]
WordEdge(text, p) ==
    (p > 1 /\ p - 1 <= Len(text) /\ WordChar(text[p - 1]))
        # (p >= 1 /\ p <= Len(text) /\ WordChar(text[p]))

\* phrase occurs in text as whole words, whatever the letter case
OccursAsWords(text, phrase) ==
    \E i \in 1..(Len(text) - Len(phrase) + 1) :
        /\ \A k \in 1..Len(phrase) :
              LowerChar(text[i + k - 1]) = LowerChar(phrase[k])
        /\ WordEdge(text, i)
        /\ WordEdge(text, i + Len(phrase))

\* the phrases clean_query_text is asked to remove
AskedPhrases ==
    {Trimmed(p) : p \in extracted.temporals \cup extracted.locations} \ {<<>>}

SingleWord(phrase) == \A k \in 1..Len(phrase) : WordChar(phrase[k])

\* C14 as stated: the output of clean_query_text holds no whole-word
\* occurrence, in any letter case, of any phrase of the set, and cleaning
\* the output again with the same phrases changes nothing.
C14_NoPhraseLeftAndIdempotent ==
    pc = "cleaned" =>
        /\ \A phrase \in AskedPhrases :
              ~OccursAsWords(semantic_clean_query, phrase)
        /\ clean_query_text(semantic_clean_query, extracted.temporals,
                            extracted.locations) = {semantic_clean_query}

\* C14, amended: the output of clean_query_text holds no whole-word
\* occurrence, in any letter case, of any phrase that is a single word, and
\* a longer phrase is removed whole before a shorter one inside it; a
\* phrase of several words can come back when the removal of another
\* phrase between its words joins them.
C14_NoSingleWordPhraseLeft ==
    pc = "cleaned" =>
        /\ \A phrase \in AskedPhrases :
              SingleWord(phrase) => ~OccursAsWords(semantic_clean_query, phrase)
        /\ \A long \in AskedPhrases : \A short \in AskedPhrases :
              (/\ OccursAsWords(long, short)
               /\ Len(short) < Len(long)
               /\ q = long)
                 => semantic_clean_query = <<>>

\* "gaza," was cleaned of the phrase "Gaza", leaving the comma, and a
\* phrase of two words was joined again by the removal
C14_Witness ==
    /\ pc = "cleaned"
    /\ q = Q_NewGazaYork
    /\ semantic_clean_query = P_NewYork
    /\ P_Gaza \in AskedPhrases
    /\ P_NewYork \in AskedPhrases

\* the four characters from position i on are 19dd or 20dd
YearDigits(text, i) ==
    /\ <<text[i], text[i + 1]>> \in {<<"1", "9">>, <<"2", "0">>}
    /\ {text[i + 2], text[i + 3]} \subseteq {Digits[d] : d \in 1..10}

\* a year 19dd or 20dd that stands as a word of its own at position i
StandaloneYearAt(text, i) ==
    /\ i + 3 <= Len(text)
    /\ YearDigits(text, i)
    /\ WordEdge(text, i)
    /\ WordEdge(text, i + 4)

HasYearSubstring(text) == \E i \in 1..(Len(text) - 3) : YearDigits(text, i)

\* C15 as stated: the text build_lexical_text returns holds no 4-digit
\* year substring (19dd or 20dd).
C15_NoYearSubstring ==
    pc = "lexical" => ~HasYearSubstring(lexical25_clean_query)

\* C15, amended: the text build_lexical_text returns holds no year 19dd or
\* 20dd standing as a word of its own (so no YYYY-YYYY and no YYYY to YYYY
\* form either), whether or not the extractor reported it; a year inside a
\* longer word, as in "1990s", stays.
C15_NoStandaloneYear ==
    pc = "lexical" =>
        \A i \in 1..Len(lexical25_clean_query) :
            ~StandaloneYearAt(lexical25_clean_query, i)

\* a query with the year 2015 and the decade 1990s: the year is stripped,
\* the decade is kept
C15_Witness ==
    /\ pc = "lexical"
    /\ \E i \in 1..Len(q) : StandaloneYearAt(q, i)
    /\ HasYearSubstring(lexical25_clean_query)

\* s occurs in text, character for character
OccursIn(text, s) ==
    \E i \in 1..(Len(text) - Len(s) + 1) : SubSeq(text, i, i + Len(s) - 1) = s

\* C16: every location phrase that occurs in the query still occurs,
\* unaltered, in the text build_lexical_text returns.
C16_LocationsKept ==
    pc = "lexical" =>
        \A place \in extracted.locations :
            OccursIn(q, place) => OccursIn(lexical25_clean_query, place)

---------------------------------------------------------------------------
(* src/src/opensearch/mapping.py: ProjectMapping.chunk_text.  A text is a  *)
(* sequence of words, each a positive number, with 0 for a stretch of      *)
(* whitespace; the tokenizer gives one token for each word and none for    *)
(* whitespace.                                                             *)

\* self.tokenizer.encode(text, add_special_tokens=False)
tokenizer_encode(text) ==
    LET words == SelectSeq(text, LAMBDA w : w # 0)
    IN  [k \in 1..Len(words) |-> [id |-> words[k]]]

\* self.tokenizer.decode(chunk_tokens)
tokenizer_decode(ids) == [k \in 1..Len(ids) |-> ids[k].id]

Min(a, b) == IF a <= b THEN a ELSE b

\* an index of a Python slice, brought into 0..len
SliceIndex(x, len) ==
    IF x < 0 THEN (IF x + len < 0 THEN 0 ELSE x + len) ELSE Min(x, len)

\* seq[a:b]
PySlice(seq, a, b) ==
    LET lo == SliceIndex(a, Len(seq))
        hi == SliceIndex(b, Len(seq))
    IN  IF lo < hi THEN SubSeq(seq, lo + 1, hi) ELSE <<>>

WindowStepNoOverlap(max_tokens, overlap) == max_tokens

\* step = max_tokens - overlap
WindowStep(max_tokens, overlap) == max_tokens - overlap

\* the text of the window that starts at offset from
WindowText(ids, from, max_tokens) ==
    LET end == Min(from + max_tokens, Len(ids))
    IN  tokenizer_decode(PySlice(ids, from, end))

\* the while loop of chunk_text, from offset `from` on
RECURSIVE ChunkLoop(_, _, _, _, _)
ChunkLoop(ids, from, max_tokens, overlap, acc) ==
    IF ~(from < Len(ids)) THEN acc
    ELSE ChunkLoop(ids, from + WindowStep(max_tokens, overlap), max_tokens,
                   overlap, Append(acc, WindowText(ids, from, max_tokens)))

\* chunk_text(text, max_tokens, overlap), for a call that returns
chunk_text(text, max_tokens, overlap) ==
    IF text = <<>> THEN <<>>
    ELSE ChunkLoop(tokenizer_encode(text), 0, max_tokens, overlap, <<>>)

---------------------------------------------------------------------------
(* The texts and the parameters chunk_text is called with.                 *)

MaxTokens == 5

MaxWindow == 3

MaxOverlap == 3

\* the windows after which the model stops following a loop
MaxChunks == 7

\* the text of n words 1, 2, ..., n
WordsUpTo(n) == [k \in 1..n |-> k]

ChunkArgs ==
    {[text |-> WordsUpTo(n), max_tokens |-> m, overlap |-> o] :
        n \in 0..MaxTokens, m \in 1..MaxWindow, o \in 0..MaxOverlap}
    \cup {[text |-> <<0>>, max_tokens |-> 2, overlap |-> 1],
          [text |-> <<1, 0, 2, 3>>, max_tokens |-> 2, overlap |-> 1],
          [text |-> WordsUpTo(1000), max_tokens |-> 450, overlap |-> 50]}

---------------------------------------------------------------------------
(* SpecChunk: one call of chunk_text, one loop iteration per step.         *)

InitChunk ==
    /\ pc = "start"
    /\ StreamIdle
    /\ SuggestIdle
    /\ args \in ChunkArgs
    /\ token_ids = <<>>
    /\ chunk_start = 0
    /\ chunks = <<>>
    /\ docs = <<>>
    /\ body = <<>>
    /\ temporals = <<>>
    /\ safe = <<>>
    /\ expanded = <<>>
    /\ QueryIdle

\* chunk_text up to the loop: an empty text returns at once
ChunkTextBegin ==
    /\ pc = "start"
    /\ IF args.text = <<>>
       THEN /\ pc' = "returned"
            /\ UNCHANGED token_ids
       ELSE /\ token_ids' = tokenizer_encode(args.text)
            /\ pc' = "loop"
    /\ chunk_start' = 0
    /\ chunks' = <<>>
    /\ UNCHANGED <<streamVars, suggestVars,
                   temporalVars, hybridVars, queryVars, docs>>

\* one iteration of `while start < len(token_ids)`
ChunkTextIterate ==
    /\ pc = "loop"
    /\ chunk_start < Len(token_ids)
    /\ Len(chunks) < MaxChunks
    /\ chunks' = Append(chunks, WindowText(token_ids, chunk_start, args.max_tokens))
    /\ chunk_start' = chunk_start + WindowStep(args.max_tokens, args.overlap)
    /\ UNCHANGED <<streamVars, suggestVars,
                   pc, temporalVars, hybridVars, queryVars, token_ids, docs>>

\* the loop condition fails: return chunks
ChunkTextReturn ==
    /\ pc = "loop"
    /\ ~(chunk_start < Len(token_ids))
    /\ pc' = "returned"
    /\ UNCHANGED <<streamVars, suggestVars,
                   temporalVars, hybridVars, queryVars, ingestVars>>

NextChunk == ChunkTextBegin \/ ChunkTextIterate \/ ChunkTextReturn

SpecChunk == InitChunk /\ [][NextChunk]_vars

\* a call that is running goes on running
SpecChunkFair == SpecChunk /\ WF_vars(NextChunk)

---------------------------------------------------------------------------
(* Properties of chunk_text.                                               *)

\* the number of tokens of the text of the call
TokenCount == Cardinality({k \in 1..Len(args.text) : args.text[k] # 0})

\* the tokens of the text of the call, as words
TokenWords == SelectSeq(args.text, LAMBDA w : w # 0)

\* the windows of n tokens for a window of size and a step of s tokens:
\* window i holds the tokens [(i - 1) * s, min((i - 1) * s + size, n))
ExpectedWindows(n, size, s) ==
    [i \in 1..((n + s - 1) \div s) |->
        [j \in 1..((IF (i - 1) * s + size < n THEN (i - 1) * s + size ELSE n)
                   - (i - 1) * s) |-> TokenWords[(i - 1) * s + j]]]

\* C17: for n > 0 tokens and 0 <= overlap < max_tokens, chunk_text gives
\* one window for each start offset 0, s, 2s, ... below n (s = max_tokens -
\* overlap), window i holding the tokens [i*s, min(i*s + max_tokens, n));
\* no window has more than max_tokens tokens, every token lies in a window,
\* 1000 tokens with max_tokens 450 and overlap 50 give the starts 0, 400
\* and 800, and an empty text gives no window.
C17_WindowsCoverTheTokens ==
    pc = "returned" =>
        /\ args.text = <<>> => chunks = <<>>
        /\ (TokenCount > 0 /\ args.overlap < args.max_tokens) =>
              LET s == args.max_tokens - args.overlap
              IN  /\ chunks = ExpectedWindows(TokenCount, args.max_tokens, s)
                  /\ \A i \in 1..Len(chunks) : Len(chunks[i]) <= args.max_tokens
                  /\ \A t \in 1..TokenCount :
                        \E i \in 1..Len(chunks) :
                           /\ (i - 1) * s < t
                           /\ t <= (i - 1) * s + Len(chunks[i])
        /\ (TokenCount = 1000 /\ args.max_tokens = 450 /\ args.overlap = 50) =>
              /\ Len(chunks) = 3
              /\ <<chunks[1][1], chunks[2][1], chunks[3][1]>> = <<1, 401, 801>>
              /\ Len(chunks[3]) = 200

\* the 1000-token text was chunked into three windows
C17_Witness ==
    /\ pc = "returned"
    /\ TokenCount = 1000
    /\ args.max_tokens = 450
    /\ args.overlap = 50
    /\ Len(chunks) = 3

\* C18: chunk_text terminates for every text, every max_tokens >= 1 and
\* every overlap >= 0: the call returns.
C18_ChunkTextReturns == <>(pc = "returned")

---------------------------------------------------------------------------
(* src/src/services/open_seach_insertion.py: OpenSearchInsertion           *)
(* .indexing_pipeline.  The record comes with its abstract already turned  *)
(* into a LocalizedText by process_dict; a field that is None is a key     *)
(* that is absent.                                                         *)

\* text.strip() == "" for a text made of words
BlankText(text) == \A k \in 1..Len(text) : text[k] = 0

\* abstract_dict.en or ""
TextOf(localized, language) ==
    IF language \in DOMAIN localized THEN localized[language] ELSE <<>>

\* list(set(xs)): the lists that hold every member of S once
ListsOfSet(S) ==
    {order \in [1..Cardinality(S) -> S] :
        \A a \in 1..Cardinality(S) : \A b \in 1..Cardinality(S) :
            order[a] = order[b] => a = b}

Max(a, b) == IF a >= b THEN a ELSE b

ZipReusingLast(en_chunks, ar_chunks) ==
    [i \in 1..Max(Len(en_chunks), Len(ar_chunks)) |->
        (IF en_chunks # <<>>
         THEN [en |-> en_chunks[Min(i, Len(en_chunks))]] ELSE <<>>)
        @@ (IF ar_chunks # <<>>
            THEN [ar |-> ar_chunks[Min(i, Len(ar_chunks))]] ELSE <<>>)]

\* [LocalizedText(en=x, ar=y)
\*  for x, y in zip_longest(en_chunks, ar_chunks, fillvalue=None)]
ZipLongest(en_chunks, ar_chunks) ==
    [i \in 1..Max(Len(en_chunks), Len(ar_chunks)) |->
        (IF i <= Len(en_chunks) THEN [en |-> en_chunks[i]] ELSE <<>>)
        @@ (IF i <= Len(ar_chunks) THEN [ar |-> ar_chunks[i]] ELSE <<>>)]

\* self.encode_text(chunk.en) if chunk.en else []
VectorOf(chunk, language) ==
    IF language \in DOMAIN chunk /\ chunk[language] # <<>>
    THEN encode(chunk[language]) ELSE <<>>

\* the ArticleDTO of one chunk
ArticleOf(chunk_id, chunk, geo_references, temporal_expressions) ==
    [chunk_id |-> chunk_id,
     abstract |-> chunk,
     abstract_vector |-> [en |-> VectorOf(chunk, "en"), ar |-> VectorOf(chunk, "ar")],
     geoReferences |-> geo_references,
     temporalExpressions |-> temporal_expressions]

\* the documents of indexing_pipeline, for one order of the two lists it
\* makes out of sets
DocsOf(abstract_dict, temporal_expressions, geo_references) ==
    LET en_chunks == chunk_text(TextOf(abstract_dict, "en"), 450, 50)
        ar_chunks == chunk_text(TextOf(abstract_dict, "ar"), 450, 50)
        combined_chunks == ZipLongest(en_chunks, ar_chunks)
    IN  [i \in 1..Len(combined_chunks) |->
            ArticleOf(i - 1, combined_chunks[i], geo_references,
                      temporal_expressions)]

---------------------------------------------------------------------------
(* The records that are ingested and the answers of the collaborators.     *)

MaxAbstractWindows == 3

\* the lengths of an abstract, in words: none, one window, ..., so many windows
AbstractLengths == {0, 1} \cup {400 * (w - 1) + 51 : w \in 2..MaxAbstractWindows}

\* an abstract of n words, the first being word number first
AbstractText(first, n) == [k \in 1..n |-> first + k - 1]

Abstracts ==
    {(IF e > 0 THEN [en |-> AbstractText(1, e)] ELSE <<>>)
        @@ (IF a > 0 THEN [ar |-> AbstractText(2001, a)] ELSE <<>>) :
        e \in AbstractLengths, a \in AbstractLengths}

\* what the extractors find in the English and in the Arabic abstract
AbstractSignals ==
    [en |-> [temporals |-> {T_2015}, locations |-> {P_Gaza}],
     ar |-> [temporals |-> {T_2020}, locations |-> {P_Nablus}]]

---------------------------------------------------------------------------
(* SpecIngest: indexing_pipeline handles one record.                       *)

InitIngest ==
    /\ pc = "start"
    /\ StreamIdle
    /\ SuggestIdle
    /\ \E abstract \in Abstracts : args = [abstract |-> abstract]
    /\ extracted = AbstractSignals
    /\ geocoder \in Geocoders({P_Gaza, P_Nablus})
    /\ docs = <<>>
    /\ token_ids = <<>>
    /\ chunk_start = 0
    /\ chunks = <<>>
    /\ geo_refs = <<>>
    /\ geocoded = <<>>
    /\ visited = <<>>
    /\ q = <<>>
    /\ lang = "en"
    /\ locations = {}
    /\ semantic_clean_query = <<>>
    /\ lexical25_clean_query = <<>>
    /\ temporals = <<>>
    /\ safe = <<>>
    /\ expanded = <<>>
    /\ body = <<>>

\* indexing_pipeline(obj) returns its documents
IndexRecord ==
    /\ pc = "start"
    /\ ~BlankText(TextOf(args.abstract, "en"))
    /\ ~BlankText(TextOf(args.abstract, "ar"))
    /\ \E temporal_expressions \in
             ListsOfSet(extracted.en.temporals \cup extracted.ar.temporals) :
          \E geo_locations \in
                ListsOfSet(extracted.en.locations \cup extracted.ar.locations) :
             LET resolved == extract_from_places(geocoder, geo_locations)
             IN  /\ geo_refs' = resolved.geo_refs
                 /\ geocoded' = resolved.geocoded
                 /\ docs' = DocsOf(args.abstract, temporal_expressions,
                                   resolved.geo_refs)
    /\ pc' = "returned"
    /\ UNCHANGED <<streamVars, suggestVars,
                   temporalVars, hybridVars, q, lang, locations,
                   semantic_clean_query, lexical25_clean_query, extracted,
                   geocoder, visited, token_ids, chunk_start, chunks>>

\* indexing_pipeline(obj) raises: an extractor is handed the empty text of
\* a language the abstract does not have, and _validate_text raises
IndexRecordRaises ==
    /\ pc = "start"
    /\ BlankText(TextOf(args.abstract, "en")) \/ BlankText(TextOf(args.abstract, "ar"))
    /\ pc' = "raised"
    /\ UNCHANGED <<streamVars, suggestVars,
                   temporalVars, hybridVars, queryVars, ingestVars>>

NextIngest == IndexRecord \/ IndexRecordRaises

SpecIngest == InitIngest /\ [][NextIngest]_vars

---------------------------------------------------------------------------
(* Properties of the ingestion.                                            *)

EnglishWindows == chunk_text(TextOf(args.abstract, "en"), 450, 50)

ArabicWindows == chunk_text(TextOf(args.abstract, "ar"), 450, 50)

\* C19: the documents indexing_pipeline returns pair the English and the
\* Arabic windows by index: there are max(#English, #Arabic) of them,
\* document i has chunk_id i (0, 1, ...), its English text is the i-th
\* English window or absent and its Arabic text the i-th Arabic window or
\* absent.
C19_ChunksPairedByIndex ==
    pc = "returned" =>
        /\ Len(docs) = (IF Len(EnglishWindows) >= Len(ArabicWindows)
                        THEN Len(EnglishWindows) ELSE Len(ArabicWindows))
        /\ \A i \in 1..Len(docs) :
              /\ docs[i].chunk_id = i - 1
              /\ IF i <= Len(EnglishWindows)
                 THEN docs[i].abstract.en = EnglishWindows[i]
                 ELSE "en" \notin DOMAIN docs[i].abstract
              /\ IF i <= Len(ArabicWindows)
                 THEN docs[i].abstract.ar = ArabicWindows[i]
                 ELSE "ar" \notin DOMAIN docs[i].abstract

\* three English windows were paired with one Arabic window
C19_Witness ==
    /\ pc = "returned"
    /\ Len(docs) = 3
    /\ Len(ArabicWindows) = 1
    /\ DOMAIN docs[1].abstract = {"en", "ar"}
    /\ DOMAIN docs[3].abstract = {"en"}

\* C20: a record whose abstract exists in one language only is ingested:
\* the pipeline completes, and every document has a vector for that
\* language and no vector, not even an empty one, for the other.
C20_OneLanguageRecordIngested ==
    (pc # "start" /\ Cardinality(DOMAIN args.abstract) = 1) =>
        /\ pc = "returned"
        /\ Len(docs) >= 1
        /\ \A i \in 1..Len(docs) :
              \A language \in {"en", "ar"} :
                 IF language \in DOMAIN args.abstract
                 THEN /\ language \in DOMAIN docs[i].abstract_vector
                      /\ docs[i].abstract_vector[language] # <<>>
                 ELSE language \notin DOMAIN docs[i].abstract_vector

---------------------------------------------------------------------------
(* src/src/services/open_seach_insertion.py: OpenSearchInsertion           *)
(* .generate_documents_from_json_stream.  A line of the file is given by   *)
(* what line.strip() and json.loads make of it; a JSON value carries its   *)
(* type, so that a subscript of the wrong type raises as it does in        *)
(* Python.  An operation that raises returns [raises |-> the exception].   *)

JNull == [json |-> "null"]

JString(s) == [json |-> "string", value |-> s]

JArray(items) == [json |-> "array", items |-> items]

JObject(members) == [json |-> "object", members |-> members]

Raised(exception) == [raises |-> exception]

IsRaised(x) == "raises" \in DOMAIN x

\* v[key], key being a str
Subscript(v, key) ==
    IF v.json = "object"
    THEN IF key \in DOMAIN v.members THEN v.members[key] ELSE Raised("KeyError")
    ELSE Raised("TypeError")

\* v == []
IsEmptyList(v) == v.json = "array" /\ v.items = <<>>

\* obj["abstract"]["en"] == [] and obj["abstract"]["ar"] == []
BothAbstractsEmpty(obj) ==
    LET abstract == Subscript(obj, "abstract")
    IN  IF IsRaised(abstract) THEN abstract
        ELSE LET en == Subscript(abstract, "en")
             IN  IF IsRaised(en) THEN en
                 ELSE IF ~IsEmptyList(en) THEN [value |-> FALSE]
                 ELSE LET ar == Subscript(abstract, "ar")
                      IN  IF IsRaised(ar) THEN ar
                          ELSE [value |-> IsEmptyList(ar)]

\* sanitize_text, for a text made of words: the white space is collapsed
\* and trimmed away
sanitize_text(raw) == SelectSeq(raw, LAMBDA w : w # 0)

\* process_dict: the loop body for one value of the dict
ProcessValue(detected, value) ==
    IF value.json # "array" \/ value.items = <<>> THEN detected
    ELSE IF value.items[1].json # "string" THEN detected
    ELSE LET clean_text == sanitize_text(value.items[1].value.words)
             detected_lang == value.items[1].value.detect
         IN  IF clean_text = <<>> THEN detected
             ELSE IF detected_lang \notin {"en", "ar"} THEN detected
             ELSE [key \in DOMAIN detected \cup {detected_lang} |->
                      IF key = detected_lang THEN clean_text ELSE detected[key]]

\* process_dict(obj): the LocalizedText of a language-keyed dict
process_dict(obj) ==
    IF obj.json # "object" THEN Raised("AttributeError")
    ELSE LET keys == SelectSeq(<<"en", "ar">>, LAMBDA key : key \in DOMAIN obj.members)
             after_first ==
                 IF Len(keys) >= 1 THEN ProcessValue(<<>>, obj.members[keys[1]])
                 ELSE <<>>
         IN  IF Len(keys) >= 2 THEN ProcessValue(after_first, obj.members[keys[2]])
             ELSE after_first

\* self.project_mapping.model_dimension, kept small
model_dimension == 2

\* encode_text: the list form of the embedding, as long as the model made it
encode_text(vector_length, embedding) == [k \in 1..vector_length |-> embedding]

\* obj.get("bitstream_uuid", "") as ArticleDTO validates it
BitstreamUuid(obj) ==
    IF "bitstream_uuid" \notin DOMAIN obj.members THEN [value |-> ""]
    ELSE IF obj.members.bitstream_uuid.json = "string"
         THEN [value |-> obj.members.bitstream_uuid.value]
         ELSE Raised("ValidationError")

\* the ArticleDTO of one chunk of a record
Dto(obj, title_dto, doc, encoder) ==
    [collection |-> "",
     bitstream_uuid |-> BitstreamUuid(obj).value,
     chunk_id |-> doc.chunk_id,
     title |-> title_dto,
     abstract |-> doc.abstract,
     abstract_vector |->
        [language \in {"en", "ar"} |->
            IF doc.abstract_vector[language] = <<>> THEN <<>>
            ELSE encode_text(encoder[language], doc.abstract_vector[language])],
     geoReferences |-> doc.geoReferences,
     temporalExpressions |-> doc.temporalExpressions]

\* indexing_pipeline(obj): the list of ArticleDTO, or the exception
\* temporal_expressions and geo_locations are the lists it makes out of
\* the sets of the extractors
indexing_pipeline(obj, temporal_expressions, geo_locations, service, encoder) ==
    LET title == Subscript(obj, "title")
        title_dto == process_dict(title)
        abstract_dict == process_dict(Subscript(obj, "abstract"))
        list == DocsOf(abstract_dict, temporal_expressions,
                       extract_from_places(service, geo_locations).geo_refs)
    IN  IF IsRaised(title) THEN title
        ELSE IF IsRaised(title_dto) THEN title_dto
        ELSE IF IsRaised(abstract_dict) THEN abstract_dict
        ELSE IF BlankText(TextOf(abstract_dict, "en"))
                \/ BlankText(TextOf(abstract_dict, "ar"))
             THEN Raised("ValueError")
        ELSE IF IsRaised(BitstreamUuid(obj)) THEN BitstreamUuid(obj)
        ELSE [value |-> [i \in 1..Len(list) |-> Dto(obj, title_dto, list[i], encoder)]]

\* a vector that is neither empty nor of another length than the model's
ValidVector(vector) == vector # <<>> /\ Len(vector) = model_dimension

DropEmptyVectors(source) ==
    LET vec == [language \in {l \in {"en", "ar"} :
                                source.abstract_vector[l] # <<>>} |->
                    source.abstract_vector[language]]
    IN  IF DOMAIN vec = {}
        THEN [key \in DOMAIN source \ {"abstract_vector"} |-> source[key]]
        ELSE [source EXCEPT !.abstract_vector = vec]

\* the vectors that are empty or of the wrong length are popped, and so is
\* abstract_vector when nothing is left in it
DropInvalidVectors(source) ==
    LET vec == [language \in {l \in {"en", "ar"} :
                                ValidVector(source.abstract_vector[l])} |->
                    source.abstract_vector[language]]
    IN  IF DOMAIN vec = {}
        THEN [key \in DOMAIN source \ {"abstract_vector"} |-> source[key]]
        ELSE [source EXCEPT !.abstract_vector = vec]

\* the index action yielded for one ArticleDTO
IndexAction(dto) ==
    [_op_type |-> "index",
     _index |-> "documents",
     _id |-> dto.bitstream_uuid \o "_" \o ToString(dto.chunk_id),
     _source |-> DropInvalidVectors(dto)]

\* what the body of `for line in f` does with one line: it goes on to the
\* next line, it yields the actions of the record, or it raises
LineOutcome(line, temporal_expressions, geo_locations, service, encoder) ==
    IF line.kind = "blank" THEN [kind |-> "skipped"]
    ELSE IF line.kind = "invalid" THEN [kind |-> "skipped"]
    ELSE LET obj == line.value
             empty == BothAbstractsEmpty(obj)
             dtos == indexing_pipeline(obj, temporal_expressions, geo_locations,
                                       service, encoder)
         IN  IF IsRaised(empty) THEN [kind |-> "raised", exception |-> empty.raises]
             ELSE IF empty.value THEN [kind |-> "skipped"]
             ELSE IF IsRaised(dtos) THEN [kind |-> "raised", exception |-> dtos.raises]
             ELSE [kind |-> "yielded", dtos |-> dtos.value]

---------------------------------------------------------------------------
(* The files that are ingested.                                            *)

MaxLines == 2

\* a raw text of n words that langdetect takes for the language detect
RawText(detect, first, n) ==
    JString([detect |-> detect, words |-> AbstractText(first, n)])

TextList(detect, first, n) ==
    JArray(IF n > 0 THEN <<RawText(detect, first, n)>> ELSE <<>>)

J_Title == JObject([en |-> TextList("en", 5001, 1), ar |-> TextList("ar", 6001, 0)])

\* an abstract of e English and a Arabic words
J_Abstract(e, a) ==
    JObject([en |-> TextList("en", 1, e), ar |-> TextList("ar", 2001, a)])

\* a line holding a record with the members uuid, a title and an abstract
RecordLine(uuid, e, a) ==
    [kind |-> "json",
     value |-> JObject(uuid @@ [title |-> J_Title, abstract |-> J_Abstract(e, a)])]

L_Blank == [kind |-> "blank"]

L_Invalid == [kind |-> "invalid"]

L_Array == [kind |-> "json", value |-> JArray(<<>>)]

L_NoAbstract ==
    [kind |-> "json",
     value |-> JObject([bitstream_uuid |-> JString("u5"), title |-> J_Title])]

L_AbstractString ==
    [kind |-> "json",
     value |-> JObject([bitstream_uuid |-> JString("u6"), title |-> J_Title,
                        abstract |-> RawText("en", 1, 1)])]

L_EmptyAbstract == RecordLine([bitstream_uuid |-> JString("u3")], 0, 0)

L_Long == RecordLine([bitstream_uuid |-> JString("u1")], 851, 1)

L_Short == RecordLine([bitstream_uuid |-> JString("u2")], 1, 1)

L_NoUuid == RecordLine(<<>>, 1, 1)

L_EmptyUuid == RecordLine([bitstream_uuid |-> JString("")], 1, 1)

L_NullUuid == RecordLine([bitstream_uuid |-> JNull], 1, 1)

L_EnglishOnly == RecordLine([bitstream_uuid |-> JString("u4")], 1, 0)

LinePool ==
    {L_Blank, L_Invalid, L_Array, L_NoAbstract, L_AbstractString,
     L_EmptyAbstract, L_Long, L_Short, L_NoUuid, L_EmptyUuid, L_NullUuid,
     L_EnglishOnly}

\* a line that cannot be ingested, between two records that can
Sandwiches ==
    {<<L_Short, line, L_Long>> :
        line \in {L_Invalid, L_Array, L_NoAbstract, L_AbstractString, L_NullUuid}}

Files == ListsUpTo(LinePool, MaxLines) \cup Sandwiches

\* how long the vectors are that the embedding model makes, by language
Encoders ==
    {[en |-> model_dimension, ar |-> model_dimension],
     [en |-> model_dimension + 1, ar |-> model_dimension],
     [en |-> model_dimension, ar |-> model_dimension - 1],
     [en |-> model_dimension + 1, ar |-> model_dimension - 1]}

\* what the extractors find in the abstracts of a record
StreamSignals ==
    [en |-> [temporals |-> {T_2015}, locations |-> {P_Gaza}],
     ar |-> [temporals |-> {}, locations |-> {}]]

---------------------------------------------------------------------------
(* SpecStream: generate_documents_from_json_stream reads one file, one     *)
(* action per pass of `for line in f`.                                     *)

InitStream ==
    /\ pc = "start"
    /\ \E file \in Files : \E encoder \in Encoders :
          args = [jsonl |-> file, encoder |-> encoder]
    /\ extracted = StreamSignals
    /\ geocoder = GeocoderOf({P_Gaza}, {})
    /\ StreamIdle
    /\ SuggestIdle
    /\ IngestIdle
    /\ geo_refs = <<>>
    /\ geocoded = <<>>
    /\ visited = <<>>
    /\ q = <<>>
    /\ lang = "en"
    /\ locations = {}
    /\ semantic_clean_query = <<>>
    /\ lexical25_clean_query = <<>>
    /\ temporals = <<>>
    /\ safe = <<>>
    /\ expanded = <<>>
    /\ body = <<>>

\* the outcomes of the pass over the next line, one per order of the lists
\* indexing_pipeline makes out of sets
NextLineOutcomes ==
    {LineOutcome(args.jsonl[line_no + 1], temporal_expressions, geo_locations,
                 geocoder, args.encoder) :
        temporal_expressions \in
            ListsOfSet(extracted.en.temporals \cup extracted.ar.temporals),
        geo_locations \in
            ListsOfSet(extracted.en.locations \cup extracted.ar.locations)}

StreamUnchanged ==
    UNCHANGED <<temporalVars, hybridVars, queryVars, ingestVars, suggestVars>>

\* the line is blank, is not JSON, or holds a record without any abstract
SkipLine ==
    /\ pc = "start"
    /\ line_no < Len(args.jsonl)
    /\ \E outcome \in NextLineOutcomes : outcome.kind = "skipped"
    /\ line_no' = line_no + 1
    /\ UNCHANGED <<pc, yielded>>
    /\ StreamUnchanged

\* the record of the line is indexed and its actions are yielded
YieldRecord ==
    /\ pc = "start"
    /\ line_no < Len(args.jsonl)
    /\ \E outcome \in NextLineOutcomes :
          /\ outcome.kind = "yielded"
          /\ yielded' = yielded \o
                [i \in 1..Len(outcome.dtos) |->
                    [line |-> line_no + 1,
                     dto |-> outcome.dtos[i],
                     action |-> IndexAction(outcome.dtos[i])]]
    /\ line_no' = line_no + 1
    /\ UNCHANGED pc
    /\ StreamUnchanged

\* the pass raises, which ends the generator
StreamRaises ==
    /\ pc = "start"
    /\ line_no < Len(args.jsonl)
    /\ \E outcome \in NextLineOutcomes : outcome.kind = "raised"
    /\ pc' = "raised"
    /\ line_no' = line_no + 1
    /\ UNCHANGED yielded
    /\ StreamUnchanged

\* the file has no more lines
StreamExhausted ==
    /\ pc = "start"
    /\ line_no = Len(args.jsonl)
    /\ pc' = "exhausted"
    /\ UNCHANGED <<line_no, yielded>>
    /\ StreamUnchanged

NextStream == SkipLine \/ YieldRecord \/ StreamRaises \/ StreamExhausted

SpecStream == InitStream /\ [][NextStream]_vars

---------------------------------------------------------------------------
(* Properties of the bulk ingestion.                                       *)

Languages == {"en", "ar"}

\* C21: every index action yielded keeps, of the vectors of its document,
\* exactly those whose length is the dimension of the model, unchanged; it
\* has no abstract_vector when no vector is kept; and every other field is
\* as indexing_pipeline produced it.
C21_OnlyValidVectorsIndexed ==
    \A i \in 1..Len(yielded) :
        LET produced == yielded[i].dto
            source == yielded[i].action._source
            kept == {l \in Languages :
                        Len(produced.abstract_vector[l]) = model_dimension}
        IN  /\ DOMAIN source \ {"abstract_vector"}
                  = DOMAIN produced \ {"abstract_vector"}
            /\ \A key \in DOMAIN source \ {"abstract_vector"} :
                  source[key] = produced[key]
            /\ ("abstract_vector" \in DOMAIN source) = (kept # {})
            /\ kept # {} =>
                  /\ DOMAIN source.abstract_vector = kept
                  /\ \A l \in kept :
                        source.abstract_vector[l] = produced.abstract_vector[l]

\* of one record, the first chunk lost a vector of the wrong length and
\* kept the other one, and the third chunk lost that vector as well as the
\* empty vector of the language it has no text in, and so abstract_vector
C21_Witness ==
    /\ Len(yielded) >= 3
    /\ LET first == yielded[1]
           third == yielded[3]
       IN  /\ Len(first.dto.abstract_vector.en) = model_dimension + 1
           /\ Len(first.dto.abstract_vector.ar) = model_dimension
           /\ DOMAIN first.action._source.abstract_vector = {"ar"}
           /\ third.dto.abstract_vector.ar = <<>>
           /\ "abstract_vector" \notin DOMAIN third.action._source

\* the generator is over: it returned or it raised
StreamOver == pc \in {"exhausted", "raised"}

\* a language-keyed dict of lists of strings
IsLocalizedLists(v) ==
    /\ v.json = "object"
    /\ DOMAIN v.members = Languages
    /\ \A l \in Languages :
          /\ v.members[l].json = "array"
          /\ \A k \in 1..Len(v.members[l].items) :
                v.members[l].items[k].json = "string"

\* the line is not JSON, is not a JSON object, or is an object that lacks
\* or mis-types abstract or bitstream_uuid
Malformed(line) ==
    \/ line.kind = "invalid"
    \/ /\ line.kind = "json"
       /\ \/ line.value.json # "object"
          \/ "abstract" \notin DOMAIN line.value.members
          \/ ~IsLocalizedLists(line.value.members.abstract)
          \/ "bitstream_uuid" \notin DOMAIN line.value.members
          \/ line.value.members.bitstream_uuid.json # "string"

\* the line holds a record with an abstract in both languages
WellFormed(line) ==
    /\ line.kind = "json"
    /\ ~Malformed(line)
    /\ \A l \in Languages : line.value.members.abstract.members[l].items # <<>>

YieldedOf(k) == {i \in 1..Len(yielded) : yielded[i].line = k}

\* C22: a malformed line is skipped individually: once the generator is
\* over, no index action comes from a malformed line, and every well-formed
\* line of the file, before or after a malformed one, had its actions
\* yielded.
C22_MalformedLinesSkippedIndividually ==
    StreamOver =>
        \A k \in 1..Len(args.jsonl) :
            /\ Malformed(args.jsonl[k]) => YieldedOf(k) = {}
            /\ WellFormed(args.jsonl[k]) => YieldedOf(k) # {}

---------------------------------------------------------------------------
(* Properties of the query path when a collaborator fails.                 *)

\* C23: when the language detector raises on the query text, the query
\* path falls back to "en" and goes on to build the hybrid query document:
\* the step that detects the language always leaves prepare_input with a
\* language, never with an exception; and the language is always "en" or
\* "ar".
C23_DetectionFailureFallsBack ==
    /\ [][pc = "start" => pc' = "detected"]_vars
    /\ [](lang \in {"en", "ar"})

\* C24: a failure of the temporal or of the location extraction degrades
\* to "no boost": the step of extractors that runs the two extractors
\* always leaves it with their results (none for an extractor that failed),
\* never with an exception, so that the hybrid query document is still
\* built.
C24_ExtractionFailureDegrades ==
    [][pc = "detected" => pc' = "loop"]_vars

---------------------------------------------------------------------------
(* src/src/query_utils/suggest_query.py: build_suggest_query, and          *)
(* src/src/services/an_najah_repository_search_service.py:                 *)
(* AnNajahRepositorySearchService.suggest.  The search engine is a         *)
(* collaborator: the hits it answers with are drawn in the initial state.  *)

SuggestFields == <<"title.en^4", "title.ar^4", "author^2">>

build_suggest_query(prefix, fetch_size) ==
    [size |-> fetch_size,
     track_total_hits |-> FALSE,
     terminate_after |-> 2000,
     _source |-> <<"title", "author">>,
     query |-> [bool |-> [should |->
        << [multi_match |->
              [query |-> strip(prefix),
               type |-> "phrase_prefix",
               fields |-> SuggestFields,
               boost |-> "3.0"]],
           [multi_match |->
              [query |-> strip(prefix),
               fields |-> SuggestFields,
               operator |-> "and",
               fuzziness |-> "AUTO",
               prefix_length |-> 2,
               max_expansions |-> 50]] >>]]]

\* min(80, max(25, limit * 8))
FetchSize(limit) == Min(80, Max(25, limit * 8))

\* src.get("author", []), a str being made a list of one
AuthorList(src) ==
    IF "author" \notin DOMAIN src THEN <<>>
    ELSE IF "str" \in DOMAIN src.author THEN <<src.author.str>>
    ELSE src.author.list

\* the values suggest takes from one hit, in the order it takes them
HitValues(hit) ==
    LET src == Arg(hit, "_source", <<>>)
        title == Arg(src, "title", <<>>)
    IN  <<Arg(title, "en", <<>>), Arg(title, "ar", <<>>)>> \o AuthorList(src)

SuggestKeyCaseSensitive(t) == t

\* key = t.lower()
SuggestKey(t) == lower(t)

\* key in seen, seen holding the keys of the suggestions collected so far
Seen(acc, key) == \E i \in 1..Len(acc) : SuggestKey(acc[i]) = key

\* the two inner loops of suggest over the values of one hit, from value j
\* on: the suggestions collected, and whether suggest returned
RECURSIVE ScanValues(_, _, _, _)
ScanValues(values, j, acc, limit) ==
    IF j > Len(values) THEN [collected |-> acc, returned |-> FALSE]
    ELSE LET t == strip(values[j])
         IN  IF t # <<>> /\ ~Seen(acc, SuggestKey(t))
             THEN IF Len(acc) + 1 >= limit
                  THEN [collected |-> Append(acc, t), returned |-> TRUE]
                  ELSE ScanValues(values, j + 1, Append(acc, t), limit)
             ELSE ScanValues(values, j + 1, acc, limit)

\* `for hit in hits`, from hit k on: what suggest returns, and how many
\* hits the loop has taken
RECURSIVE ScanHits(_, _, _, _)
ScanHits(hits, k, acc, limit) ==
    IF k > Len(hits)
    THEN [returns |-> PySlice(acc, 0, limit), taken |-> Len(hits)]
    ELSE LET scan == ScanValues(HitValues(hits[k]), 1, acc, limit)
         IN  IF scan.returned
             THEN [returns |-> scan.collected, taken |-> k]
             ELSE ScanHits(hits, k + 1, scan.collected, limit)

---------------------------------------------------------------------------
(* The prefixes, the limits and the hits.                                  *)

MaxHits == 2

S_ClimatePolicy ==
    <<"C", "l", "i", "m", "a", "t", "e", " ", "P", "o", "l", "i", "c", "y">>

S_climate_policy == lower(S_ClimatePolicy)

S_ClimatePadded == <<" ">> \o S_ClimatePolicy \o <<" ">>

\* an Arabic title: its characters have no case
S_Arabic == <<"1", "2", "3">>

S_Omar == <<"O", "m", "a", "r">>

S_OMAR == <<"O", "M", "A", "R">>

S_Spaces == <<" ", " ">>

\* a hit with both titles and a list of authors
H_Climate ==
    [_source |-> [title |-> [en |-> S_ClimatePolicy, ar |-> S_Arabic],
                  author |-> [list |-> <<S_Omar>>]]]

\* the same title in lower case, no Arabic title, the author as one string
H_climate ==
    [_source |-> [title |-> [en |-> S_climate_policy],
                  author |-> [str |-> S_OMAR]]]

\* a padded title, an empty one and authors that are blank or seen before
H_Padded ==
    [_source |-> [title |-> [en |-> S_ClimatePadded, ar |-> <<>>],
                  author |-> [list |-> <<S_Spaces, <<>>, S_ClimatePolicy, S_OMAR>>]]]

\* a hit without titles
H_AuthorOnly == [_source |-> [author |-> [list |-> <<S_OMAR, S_Omar>>]]]

\* a hit without _source
H_Bare == [_id |-> "u1_0"]

HitPool == {H_Climate, H_climate, H_Padded, H_AuthorOnly, H_Bare}

HitLists == ListsUpTo(HitPool, MaxHits)

Prefixes ==
    {<<"c", "l">>, <<" ", "c", "l", " ">>, <<"c", "l", "i">>,
     <<" ", "C", "l", "i", "m", " ">>}

Limits == {0, 1, 2, 3, 4, 8, 11}

FetchSizes == {1, 25, 60, 80}

---------------------------------------------------------------------------
(* SpecSuggest: one call of build_suggest_query, or one call of suggest.   *)
(* body is the request suggest sent to the search engine, if it sent one.  *)

InitSuggest ==
    /\ pc = "start"
    /\ \E prefix \in Prefixes : \E limit \in Limits : \E hits \in HitLists :
          \E fetch_size \in FetchSizes :
             args = [prefix |-> prefix, limit |-> limit, hits |-> hits,
                     fetch_size |-> fetch_size]
    /\ body = <<>>
    /\ SuggestIdle
    /\ StreamIdle
    /\ IngestIdle
    /\ QueryIdle
    /\ temporals = <<>>
    /\ safe = <<>>
    /\ expanded = <<>>

SuggestUnchanged ==
    UNCHANGED <<args, temporalVars, queryVars, ingestVars, streamVars>>

\* build_suggest_query(prefix, fetch_size=fetch_size)
BuildSuggestQuery ==
    /\ pc = "start"
    /\ body' = build_suggest_query(args.prefix, args.fetch_size)
    /\ pc' = "built"
    /\ UNCHANGED suggestVars
    /\ SuggestUnchanged

\* suggest(prefix, limit) for a prefix of less than 3 characters
SuggestShortPrefix ==
    /\ pc = "start"
    /\ Len(strip(args.prefix)) < 3
    /\ suggestions' = <<>>
    /\ pc' = "returned"
    /\ UNCHANGED <<body, scanned>>
    /\ SuggestUnchanged

\* suggest(prefix, limit): the search and the scan of its hits
Suggest ==
    /\ pc = "start"
    /\ ~(Len(strip(args.prefix)) < 3)
    /\ body' = build_suggest_query(strip(args.prefix), FetchSize(args.limit))
    /\ LET scan == ScanHits(args.hits, 1, <<>>, args.limit)
       IN  /\ suggestions' = scan.returns
           /\ scanned' = scan.taken
    /\ pc' = "returned"
    /\ SuggestUnchanged

NextSuggest == BuildSuggestQuery \/ SuggestShortPrefix \/ Suggest

SpecSuggest == InitSuggest /\ [][NextSuggest]_vars

---------------------------------------------------------------------------
(* Properties of the autocomplete.                                         *)

ShouldOf(request) == request.query.bool.should

\* C25: the request build_suggest_query returns has size = fetch_size,
\* _source = [title, author] and a bool query with exactly two should
\* clauses, first the phrase_prefix multi_match boosted 3.0 and then the
\* fuzzy multi_match (fuzziness AUTO, prefix_length 2, max_expansions
\* bounded), together with minimum_should_match = 1.
C25_SuggestRequestContract ==
    pc = "built" =>
        /\ body.size = args.fetch_size
        /\ body._source = <<"title", "author">>
        /\ Len(ShouldOf(body)) = 2
        /\ ShouldOf(body)[1].multi_match.type = "phrase_prefix"
        /\ ShouldOf(body)[1].multi_match.boost = "3.0"
        /\ ShouldOf(body)[2].multi_match.fuzziness = "AUTO"
        /\ ShouldOf(body)[2].multi_match.prefix_length = 2
        /\ "max_expansions" \in DOMAIN ShouldOf(body)[2].multi_match
        /\ \/ /\ "minimum_should_match" \in DOMAIN body.query.bool
              /\ body.query.bool.minimum_should_match = 1
           \/ /\ "minimum_should_match" \in DOMAIN body
              /\ body.minimum_should_match = 1

\* the strings a hit offers, trimmed: its English title, its Arabic title,
\* then its authors
OfferedBy(hit) ==
    LET src == IF "_source" \in DOMAIN hit THEN hit._source ELSE <<>>
        titles == IF "title" \in DOMAIN src THEN src.title ELSE <<>>
        authors == IF "author" \notin DOMAIN src THEN <<>>
                   ELSE IF "list" \in DOMAIN src.author THEN src.author.list
                   ELSE <<src.author.str>>
        raw == <<IF "en" \in DOMAIN titles THEN titles.en ELSE <<>>,
                 IF "ar" \in DOMAIN titles THEN titles.ar ELSE <<>>>> \o authors
    IN  [k \in 1..Len(raw) |-> Trimmed(raw[k])]

\* the strings the first n hits offer, in hit order
RECURSIVE OfferedByFirst(_, _)
OfferedByFirst(hits, n) ==
    IF n = 0 THEN <<>> ELSE OfferedByFirst(hits, n - 1) \o OfferedBy(hits[n])

EqualIgnoringCase(a, b) ==
    /\ Len(a) = Len(b)
    /\ \A k \in 1..Len(a) : LowerChar(a[k]) = LowerChar(b[k])

\* the strings of a list that are not empty and not equal, ignoring case,
\* to an earlier string of the list
FirstSeen(offered) ==
    LET first == {k \in 1..Len(offered) :
                     /\ offered[k] # <<>>
                     /\ \A j \in 1..(k - 1) : ~EqualIgnoringCase(offered[j], offered[k])}
    IN  [i \in 1..Cardinality(first) |->
            offered[CHOOSE k \in first : Cardinality({j \in first : j < k}) = i - 1]]

IsPrefixOf(a, b) == Len(a) <= Len(b) /\ a = SubSeq(b, 1, Len(a))

\* C26: the list suggest returns holds no two strings that are equal
\* ignoring case, across the English titles, the Arabic titles and the
\* authors of all hits, and no empty string; its strings are the first-seen
\* spellings in first-seen order (hit order, then title.en, title.ar and
\* the authors within a hit).
C26_SuggestionsDistinctIgnoringCase ==
    pc = "returned" =>
        /\ \A i \in 1..Len(suggestions) : \A j \in 1..Len(suggestions) :
              i # j => ~EqualIgnoringCase(suggestions[i], suggestions[j])
        /\ \A i \in 1..Len(suggestions) : suggestions[i] # <<>>
        /\ IsPrefixOf(suggestions,
                      FirstSeen(OfferedByFirst(args.hits, Len(args.hits))))

\* "Climate Policy" and "climate policy" came from two hits, and so did
\* "Omar" and "OMAR": each surfaced once, in the spelling of the first hit
C26_Witness ==
    /\ pc = "returned"
    /\ args.hits = <<H_Climate, H_climate>>
    /\ suggestions = <<S_ClimatePolicy, S_Arabic, S_Omar>>

\* clamp(x, lo, hi)
Clamp(x, lo, hi) == IF x < lo THEN lo ELSE IF x > hi THEN hi ELSE x

\* C27: suggest returns at most `limit` suggestions, for every limit, and
\* takes no further hit once `limit` suggestions are collected; the fetch
\* size it sends is clamp(limit * 8, 25, 80); and for a prefix of less than
\* 3 characters after trimming it returns the empty list without a search.
C27_SuggestHonoursLimit ==
    pc = "returned" =>
        /\ Len(suggestions) <= args.limit
        /\ \A n \in 1..(scanned - 1) :
              Len(FirstSeen(OfferedByFirst(args.hits, n))) < args.limit
        /\ body # <<>> => body.size = Clamp(args.limit * 8, 25, 80)
        /\ Len(Trimmed(args.prefix)) < 3 => (suggestions = <<>> /\ body = <<>>)

---------------------------------------------------------------------------
(* The query path and the iteration order of the extractors' result sets.  *)

\* the geo references extractors returns when its loop takes the
\* candidates in the given order
GeoRefsInOrder(order) ==
    ExtractorsLoop(geocoder, order, [geo_refs |-> <<>>, geocoded |-> <<>>]).geo_refs

\* C28: the query path is deterministic: for the query text, the detected
\* language, the extracted sets and the geocoder's answers of a run, the
\* semantic text, the lexical text and the hybrid query document the run
\* returned are those that every other iteration order of the sets returns.
C28_QueryPathDeterministic ==
    pc = "built" =>
        /\ clean_query_text(q, temporals, locations) = {semantic_clean_query}
        /\ build_lexical_text(q, temporals, locations) = {lexical25_clean_query}
        /\ \A order \in ListsOfSet(locations) :
              body = build_hybrid_query_pipeline(
                        [args EXCEPT !.geo_refs = GeoRefsInOrder(order)])

---------------------------------------------------------------------------
(* SpecTokens: the temporal expressions of one text are indexed with a     *)
(* document (indexing_pipeline) and then asked for by a query              *)
(* (user_query), the extractor having found the same set in the abstract   *)
(* and in the query.  temporalExpressions is a keyword field               *)
(* (src/src/opensearch/mapping.py:283): a terms clause matches a document  *)
(* that holds one of the terms, character for character.                   *)

MaxSignals == 2

SignalSets == {S \in SUBSET AllTemporals : Cardinality(S) <= MaxSignals}

\* the abstract of the document, one word in each language
A_Both == [en |-> <<1>>, ar |-> <<2001>>]

InitTokens ==
    /\ pc = "start"
    /\ temporals \in SignalSets
    /\ args = <<>>
    /\ body = <<>>
    /\ docs = <<>>
    /\ token_ids = <<>>
    /\ chunk_start = 0
    /\ chunks = <<>>
    /\ safe = <<>>
    /\ expanded = <<>>
    /\ QueryIdle
    /\ StreamIdle
    /\ SuggestIdle

\* indexing_pipeline: temporalExpressions = list(set(en + ar))
IndexTemporals ==
    /\ pc = "start"
    /\ \E temporal_expressions \in ListsOfSet(temporals) :
          docs' = DocsOf(A_Both, temporal_expressions, <<>>)
    /\ pc' = "indexed"
    /\ UNCHANGED <<temporalVars, hybridVars, queryVars, token_ids, chunk_start,
                   chunks, streamVars, suggestVars>>

\* user_query: the hybrid query document for the same temporal expressions
QueryTemporals ==
    /\ pc = "indexed"
    /\ args' = [lexical25_text |-> <<>>,
                semantic_query_vector |-> encode(<<>>),
                temporal_expressions |-> [set |-> temporals],
                geo_refs |-> <<>>,
                num_candidates |-> 100,
                lang |-> "en"]
    /\ body' = build_hybrid_query_pipeline(args')
    /\ pc' = "queried"
    /\ UNCHANGED <<temporalVars, queryVars, ingestVars, streamVars, suggestVars>>

NextTokens == IndexTemporals \/ QueryTemporals

SpecTokens == InitTokens /\ [][NextTokens]_vars

\* the terms of the temporal boost of a hybrid query document
TemporalTermsOf(request) ==
    LET leg == request.query.hybrid.queries[1]
    IN  IF "bool" \in DOMAIN leg /\ "should" \in DOMAIN leg.bool
        THEN UNION {Range(leg.bool.should[i].constant_score.filter.terms.temporalExpressions) :
                      i \in {k \in 1..Len(leg.bool.should) :
                                "terms" \in DOMAIN leg.bool.should[k].constant_score.filter}}
        ELSE {}

\* C29: ingestion and query agree on temporal tokens: for every temporal
\* expression t that passes the signal filter, the document indexed for an
\* abstract that yielded t holds a temporalExpressions token that is among
\* the terms expand_year_ranges(filter_safe_temporals([t])) of the query
\* whose text yielded t, and so satisfies the query's temporal boost filter.
C29_IngestionAndQueryAgree ==
    pc = "queried" =>
        \A t \in temporals :
            IsSafeTemporal(t) =>
                \E token \in Range(docs[1].temporalExpressions) :
                    /\ token \in Range(expand_year_ranges(filter_safe_temporals(<<t>>)))
                    /\ token \in TemporalTermsOf(body)

---------------------------------------------------------------------------
(* The identifiers of the index actions.                                   *)

\* C30: within one run of generate_documents_from_json_stream, the actions
\* yielded for distinct (record, chunk) pairs have distinct _id values, so
\* that no action overwrites the document of another record or chunk, also
\* when bitstream_uuid is missing, empty or repeated.
C30_DistinctIdsPerRecordAndChunk ==
    \A i \in 1..Len(yielded) : \A j \in 1..Len(yielded) :
        (yielded[i].line # yielded[j].line
            \/ yielded[i].dto.chunk_id # yielded[j].dto.chunk_id)
        => yielded[i].action._id # yielded[j].action._id

=============================================================================
